---- MODULE Spec2Model ----
(***************************************************************************)
(* A model of the crunch LSM storage engine (crates/engine): the segment   *)
(* codec, the sparse index, the memtable, the store (WAL, flush, segment   *)
(* list behind a readers-writer lock), the background compaction loop and  *)
(* the engine facade.                                                      *)
(*                                                                         *)
(* Files are byte sequences.  Strings (keys, values) are sequences of      *)
(* bytes, ordered bytewise as Rust's String ordering.  An Option<T> is a   *)
(* sequence of length at most one: None is << >>, Some(x) is << x >>.      *)
(***************************************************************************)
EXTENDS Integers, Sequences, FiniteSets, TLC

\* ------------------------------------------------------------------ bounds
\* Number of Engine::set / Engine::delete calls of one run.
MaxOps == 4
\* The largest memtable capacity (MemtableArgs.capacity) an engine is built with.
MaxCapacity == 2
\* Number of crashes of the process followed by a restart.
MaxCrashes == 1
\* The largest length a length prefix encodes: u32::max_value(), scaled down.
MaxLen == 5

\* ------------------------------------------------------- program constants
SPARSE_INDEX_RANGE_SIZE == 4
IndicatorAssignment == 0
IndicatorTombstone == 1

\* The keys and values the calls draw from: "ab" < "b" (the longer key is
\* the smaller one), and values of two different lengths.
Keys == {<<97, 98>>, <<98>>}
Values == {<<49>>, <<50, 50>>}

None == << >>
Some(x) == << x >>

\* ------------------------------------------------------------- strings
\* Ordering of String (bytewise lexicographic): a.cmp(b).
StrLess(a, b) ==
    \/ \E i \in 1..Len(a) :
          /\ i <= Len(b)
          /\ \A j \in 1..(i - 1) : a[j] = b[j]
          /\ a[i] < b[i]
    \/ /\ Len(a) < Len(b)
       /\ \A j \in 1..Len(a) : a[j] = b[j]

cmp(a, b) == IF a = b THEN "Equal" ELSE IF StrLess(a, b) THEN "Less" ELSE "Greater"

\* The keys of a set in ascending order (BTreeMap iteration order).
RECURSIVE Ascending(_)
Ascending(S) ==
    IF S = {} THEN << >>
    ELSE LET m == CHOOSE x \in S : \A y \in S : y = x \/ StrLess(x, y)
         IN  <<m>> \o Ascending(S \ {m})

\* ------------------------------------------------------------- codec
\* u32::to_be_bytes and u32::from_be_bytes.
\* u32::to_le_bytes in the place of u32::to_be_bytes.
to_le_bytes(n) ==
    << n % 256, (n \div 256) % 256, (n \div 65536) % 256, (n \div 16777216) % 256 >>

to_be_bytes(n) ==
    << (n \div 16777216) % 256, (n \div 65536) % 256, (n \div 256) % 256, n % 256 >>

from_be_bytes(b) == b[1] * 16777216 + b[2] * 65536 + b[3] * 256 + b[4]

Assignment(k, v) == [type |-> "Assignment", key |-> k, value |-> v]
Tombstone(k) == [type |-> "Tombstone", key |-> k, value |-> << >>]

\* u32::try_from(size) of segment::write and segment::tombstone fails: the
\* component is longer than the length prefix can say.
TooLarge_never(component) == FALSE
TooLarge(component) == Len(component) > MaxLen

\* segment::write: the bytes appended to the file for an assignment.
write(file, key, value) ==
    file \o <<IndicatorAssignment>> \o to_be_bytes(Len(key)) \o key
         \o to_be_bytes(Len(value)) \o value

\* segment::tombstone: the bytes appended to the file for a deletion marker.
tombstone(file, key) ==
    file \o <<IndicatorTombstone>> \o to_be_bytes(Len(key)) \o key

\* Entry::write.
Entry_write(file, entry) ==
    IF entry.type = "Assignment" THEN write(file, entry.key, entry.value)
    ELSE tombstone(file, entry.key)

\* Entry::stride without the byte of the indicator.
stride_without_indicator(entry) ==
    IF entry.type = "Assignment" THEN Len(entry.key) + Len(entry.value) + 8
    ELSE Len(entry.key) + 4

\* Entry::stride.
stride(entry) ==
    IF entry.type = "Assignment" THEN Len(entry.key) + Len(entry.value) + 8 + 1
    ELSE Len(entry.key) + 4 + 1

\* EntryIter::next at byte offset pos of a file.  kind "entry": an entry was
\* read and the offset advanced; "none": the iterator ended (end of file at
\* the indicator, or an unknown indicator); "panic": a read_exact inside an
\* entry hit the end of the file and the unwrap panicked.
EntryIter_next(file, pos) ==
    LET n == Len(file)
        NoEntry == Tombstone(<< >>)
    IN
    IF pos + 1 > n THEN [kind |-> "none", entry |-> NoEntry, pos |-> pos]
    ELSE IF file[pos + 1] = IndicatorAssignment THEN
        IF pos + 5 > n THEN [kind |-> "panic", entry |-> NoEntry, pos |-> pos]
        ELSE LET klen == from_be_bytes(SubSeq(file, pos + 2, pos + 5))
                 kend == pos + 5 + klen
             IN IF kend + 4 > n THEN [kind |-> "panic", entry |-> NoEntry, pos |-> pos]
                ELSE LET vlen == from_be_bytes(SubSeq(file, kend + 1, kend + 4))
                         vend == kend + 4 + vlen
                     IN IF vend > n
                        THEN [kind |-> "panic", entry |-> NoEntry, pos |-> pos]
                        ELSE [kind |-> "entry",
                              entry |-> Assignment(SubSeq(file, pos + 6, kend),
                                                   SubSeq(file, kend + 5, vend)),
                              pos |-> vend]
    ELSE IF file[pos + 1] = IndicatorTombstone THEN
        IF pos + 5 > n THEN [kind |-> "panic", entry |-> NoEntry, pos |-> pos]
        ELSE LET klen == from_be_bytes(SubSeq(file, pos + 2, pos + 5))
                 kend == pos + 5 + klen
             IN IF kend > n THEN [kind |-> "panic", entry |-> NoEntry, pos |-> pos]
                ELSE [kind |-> "entry",
                      entry |-> Tombstone(SubSeq(file, pos + 6, kend)),
                      pos |-> kend]
    ELSE [kind |-> "none", entry |-> NoEntry, pos |-> pos + 1]

\* The entries EntryIter yields from byte offset pos until it ends.
IterFrom(file, pos) ==
    LET from[p \in 0..Len(file)] ==
            LET r == EntryIter_next(file, p)
            IN  IF r.kind = "entry" THEN <<r.entry>> \o from[r.pos] ELSE << >>
    IN  from[pos]

\* EntryIter::from_start(file) collected.
from_start(file) == IterFrom(file, 0)

\* How EntryIter::from_start(file) ends: "eof" when read_exact of the
\* indicator meets the end of the file (return None), "unknown_indicator"
\* when from_u8_opt gives None (a warning is logged and None returned), and
\* "panic" when a read_exact inside an entry meets the end of the file.
EntryIter_end(file) ==
    LET end[p \in 0..Len(file)] ==
            LET r == EntryIter_next(file, p)
            IN  IF r.kind = "entry" THEN end[r.pos]
                ELSE IF r.kind = "panic" THEN "panic"
                ELSE IF p + 1 > Len(file) THEN "eof"
                ELSE "unknown_indicator"
    IN  end[0]

\* ------------------------------------------------------------- sparse index
\* SparseIndex is a BTreeMap<String, u64>: a function from its keys to offsets.
\* SparseIndex::get_byte_range: (start, end) as a pair of Option<u64>.
\* get_byte_range with the bounds exchanged: the start excludes the key and
\* the end includes it.
get_byte_range_equal_is_end(index, key) ==
    LET below == {k \in DOMAIN index : StrLess(k, key)}
        above == {k \in DOMAIN index : k = key \/ StrLess(key, k)}
        last  == CHOOSE k \in below : \A o \in below : o = k \/ StrLess(o, k)
        next  == CHOOSE k \in above : \A o \in above : o = k \/ StrLess(k, o)
    IN  << IF below = {} THEN None ELSE Some(index[last]),
           IF above = {} THEN None ELSE Some(index[next]) >>

get_byte_range(index, key) ==
    LET below == {k \in DOMAIN index : k = key \/ StrLess(k, key)}
        above == {k \in DOMAIN index : StrLess(key, k)}
        last  == CHOOSE k \in below : \A o \in below : o = k \/ StrLess(o, k)
        next  == CHOOSE k \in above : \A o \in above : o = k \/ StrLess(k, o)
    IN  << IF below = {} THEN None ELSE Some(index[last]),
           IF above = {} THEN None ELSE Some(index[next]) >>

\* SparseIndex::insert.
SparseIndex_insert(index, key, offset) ==
    [k \in (DOMAIN index) \cup {key} |-> IF k = key THEN offset ELSE index[k]]

\* ------------------------------------------------------------- segment handle
\* The second pass with the entries counted from one: the entries that join
\* the sparse index are the fourth, the eighth, ...
RECURSIVE BuildStructures_counts_from_one(_, _, _, _)
BuildStructures_counts_from_one(entries, idx, elapsed_bytes, acc) ==
    IF idx >= Len(entries) THEN acc
    ELSE LET entry == entries[idx + 1]
             sparse == IF (idx + 1) % SPARSE_INDEX_RANGE_SIZE = 0
                       THEN SparseIndex_insert(acc.sparse_index, entry.key, elapsed_bytes)
                       ELSE acc.sparse_index
         IN  BuildStructures_counts_from_one(entries, idx + 1, elapsed_bytes + stride(entry),
                 [bloom_filter |-> acc.bloom_filter \cup {entry.key},
                  sparse_index |-> sparse])

\* The second pass of create_data_structures_for_segment over the entries:
\* every key joins the Bloom filter, every SPARSE_INDEX_RANGE_SIZE-th entry
\* joins the sparse index with the offset at which it starts.
RECURSIVE BuildStructures(_, _, _, _)
BuildStructures(entries, idx, elapsed_bytes, acc) ==
    IF idx >= Len(entries) THEN acc
    ELSE LET entry == entries[idx + 1]
             sparse == IF idx % SPARSE_INDEX_RANGE_SIZE = 0
                       THEN SparseIndex_insert(acc.sparse_index, entry.key, elapsed_bytes)
                       ELSE acc.sparse_index
         IN  BuildStructures(entries, idx + 1, elapsed_bytes + stride(entry),
                 [bloom_filter |-> acc.bloom_filter \cup {entry.key},
                  sparse_index |-> sparse])

create_data_structures_for_segment(file) ==
    BuildStructures(from_start(file), 0, 0,
                    [bloom_filter |-> {}, sparse_index |-> << >>])

\* The scan loop of Segment::get: entries are read from offset pos, the loop
\* breaks once elapsed_bytes has reached end.  The result is an
\* Option<Option<String>>.
RECURSIVE Scan(_, _, _, _, _)
Scan(file, pos, elapsed_bytes, end, key) ==
    LET r == EntryIter_next(file, pos)
    IN  IF r.kind # "entry" THEN None
        ELSE IF end # None /\ elapsed_bytes >= end[1] THEN None
        ELSE IF r.entry.key = key
             THEN IF r.entry.type = "Assignment" THEN Some(Some(r.entry.value))
                  ELSE Some(None)
        ELSE Scan(file, r.pos, elapsed_bytes + stride(r.entry), end, key)

\* Segment::get on a freshly opened segment.  false_positive is the answer
\* the Bloom filter gives for a key that was never inserted.
Segment_get(file, key, false_positive) ==
    LET ds    == create_data_structures_for_segment(file)
        range == get_byte_range(ds.sparse_index, key)
        start == IF range[1] = None THEN 0 ELSE range[1][1]
    IN  IF ~(key \in ds.bloom_filter \/ false_positive) THEN None
        ELSE Scan(file, start, start, range[2], key)

\* ------------------------------------------------------------- compaction
\* compact: the two-way merge of the entries of file1 (older) and file2
\* (newer) into the bytes of the new file.
\* compact with the arms of the Equal case exchanged: the entry of file1, the
\* older segment, is the one written.
RECURSIVE Merge_equal_keeps_older(_, _, _, _, _)
Merge_equal_keeps_older(e1, e2, i, j, new_file) ==
    IF i <= Len(e1) /\ j <= Len(e2) THEN
        LET c == cmp(e1[i].key, e2[j].key)
        IN  IF c = "Less"
            THEN Merge_equal_keeps_older(e1, e2, i + 1, j, Entry_write(new_file, e1[i]))
            ELSE IF c = "Greater"
            THEN Merge_equal_keeps_older(e1, e2, i, j + 1, Entry_write(new_file, e2[j]))
            ELSE Merge_equal_keeps_older(e1, e2, i + 1, j + 1, Entry_write(new_file, e1[i]))
    ELSE IF i <= Len(e1)
    THEN Merge_equal_keeps_older(e1, e2, i + 1, j, Entry_write(new_file, e1[i]))
    ELSE IF j <= Len(e2)
    THEN Merge_equal_keeps_older(e1, e2, i, j + 1, Entry_write(new_file, e2[j]))
    ELSE new_file

\* compact whose Equal case forgets `entry1 = iter1.next()`: the entry of
\* file2 is written and only iter2 advances.
RECURSIVE Merge_equal_advances_one(_, _, _, _, _)
Merge_equal_advances_one(e1, e2, i, j, new_file) ==
    IF i <= Len(e1) /\ j <= Len(e2) THEN
        LET c == cmp(e1[i].key, e2[j].key)
        IN  IF c = "Less"
            THEN Merge_equal_advances_one(e1, e2, i + 1, j, Entry_write(new_file, e1[i]))
            ELSE Merge_equal_advances_one(e1, e2, i, j + 1, Entry_write(new_file, e2[j]))
    ELSE IF i <= Len(e1)
    THEN Merge_equal_advances_one(e1, e2, i + 1, j, Entry_write(new_file, e1[i]))
    ELSE IF j <= Len(e2)
    THEN Merge_equal_advances_one(e1, e2, i, j + 1, Entry_write(new_file, e2[j]))
    ELSE new_file

RECURSIVE Merge(_, _, _, _, _)
Merge(e1, e2, i, j, new_file) ==
    IF i <= Len(e1) /\ j <= Len(e2) THEN
        LET c == cmp(e1[i].key, e2[j].key)
        IN  IF c = "Less" THEN Merge(e1, e2, i + 1, j, Entry_write(new_file, e1[i]))
            ELSE IF c = "Greater" THEN Merge(e1, e2, i, j + 1, Entry_write(new_file, e2[j]))
            ELSE Merge(e1, e2, i + 1, j + 1, Entry_write(new_file, e2[j]))
    ELSE IF i <= Len(e1) THEN Merge(e1, e2, i + 1, j, Entry_write(new_file, e1[i]))
    ELSE IF j <= Len(e2) THEN Merge(e1, e2, i, j + 1, Entry_write(new_file, e2[j]))
    ELSE new_file

compact(file1, file2) ==
    LET merged[file1_entries \in {from_start(file1)}, file2_entries \in {from_start(file2)}] ==
            Merge(file1_entries, file2_entries, 1, 1, << >>)
    IN  merged[from_start(file1), from_start(file2)]

\* ------------------------------------------------------------- memtable
\* The memtable's tree is a function from its keys to Option<String>.
EmptyTree == << >>

Memtable_set(tree, key, value) ==
    [k \in (DOMAIN tree) \cup {key} |-> IF k = key THEN Some(value) ELSE tree[k]]

Memtable_delete(tree, key) ==
    [k \in (DOMAIN tree) \cup {key} |-> IF k = key THEN None ELSE tree[k]]

\* Memtable::get that reports a deleted key as a key it does not know.
Memtable_get_tombstone_as_absent(tree, key) ==
    IF key \in DOMAIN tree /\ tree[key] # None THEN Some(tree[key]) ELSE None

\* Memtable::get: Option<Option<String>>.
Memtable_get(tree, key) == IF key \in DOMAIN tree THEN Some(tree[key]) ELSE None

\* Memtable::full.
full(tree, cap) == Cardinality(DOMAIN tree) >= cap

\* The loop of write_memtable without its None arm: deleted keys are skipped.
RECURSIVE WriteEntries_drops_tombstones(_, _, _, _)
WriteEntries_drops_tombstones(tree, order, i, file) ==
    IF i > Len(order) THEN file
    ELSE LET key == order[i]
         IN  WriteEntries_drops_tombstones(tree, order, i + 1,
                 IF tree[key] # None THEN write(file, key, tree[key][1]) ELSE file)

\* The loop of Store::write_memtable over Memtable::iter: the bytes of the
\* new segment file.
RECURSIVE WriteEntries(_, _, _, _)
WriteEntries(tree, order, i, file) ==
    IF i > Len(order) THEN file
    ELSE LET key == order[i]
         IN  WriteEntries(tree, order, i + 1,
                 IF tree[key] # None THEN write(file, key, tree[key][1])
                 ELSE tombstone(file, key))

\* A memtable that iterates its keys in descending order.
Memtable_iter_descending(tree) ==
    [i \in 1..Cardinality(DOMAIN tree) |->
        Ascending(DOMAIN tree)[Cardinality(DOMAIN tree) + 1 - i]]

\* Memtable::iter: the keys of the tree in ascending order.
Memtable_iter(tree) == Ascending(DOMAIN tree)

\* replay_wal that keeps what the memtable already has for a key: the first
\* entry of a key wins.
RECURSIVE Replay_first_entry_wins(_, _, _)
Replay_first_entry_wins(entries, i, tree) ==
    IF i > Len(entries) THEN tree
    ELSE Replay_first_entry_wins(entries, i + 1,
                IF entries[i].key \in DOMAIN tree THEN tree
                ELSE IF entries[i].type = "Assignment"
                THEN Memtable_set(tree, entries[i].key, entries[i].value)
                ELSE Memtable_delete(tree, entries[i].key))

\* Store::replay_wal: the memtable after the entries of the WAL are applied
\* in file order.
RECURSIVE Replay(_, _, _)
Replay(entries, i, tree) ==
    IF i > Len(entries) THEN tree
    ELSE Replay(entries, i + 1,
                IF entries[i].type = "Assignment"
                THEN Memtable_set(tree, entries[i].key, entries[i].value)
                ELSE Memtable_delete(tree, entries[i].key))

replay_wal(wal_file, tree) == Replay(from_start(wal_file), 1, tree)

\* ------------------------------------------------------------- paths
\* The files of the data directory: segment-<id>.dat, new-segment.dat, wal.dat.
segment_filename(id) == [kind |-> "segment", id |-> id]
is_segment_filename(path) == path.kind = "segment"
segment_id(path) == IF path.kind = "segment" THEN Some(path.id) ELSE None
new_segment_path == [kind |-> "new-segment", id |-> 0]
wal_path == [kind |-> "wal", id |-> 0]

\* A directory is a function from the paths of its files to their bytes.
Put(d, path, bytes) ==
    [q \in (DOMAIN d) \cup {path} |-> IF q = path THEN bytes ELSE d[q]]
Remove(d, path) == [q \in (DOMAIN d) \ {path} |-> d[q]]

Ok(x) == [tag |-> "Ok", val |-> x, err |-> ""]
Err(e) == [tag |-> "Err", val |-> None, err |-> e]
\* The call did not return: the thread panicked inside it.
Panicked == [tag |-> "Panic", val |-> None, err |-> "unwrap"]

\* ------------------------------------------------------------- state
VARIABLES
    dir,                  \* the data directory: path -> bytes
    segments,             \* Store.segments: the VecDeque of segment paths
    lock,                 \* the RwLock around segments
    memtable,             \* Engine.memtable.tree
    capacity,             \* Engine.memtable.capacity
    compaction_kill_flag, \* Store.compaction_kill_flag
    fg,                   \* the engine thread: where it is inside a call
    cp,                   \* the compaction thread: where it is in its loop
    map,                  \* the reference map the calls are mirrored into
    deleted,              \* the keys whose last mutation was a delete
    last,                 \* the call that returned last, with what it returned
    ops,                  \* number of set/delete calls made
    crashes               \* number of crashes of the process

vars == <<dir, segments, lock, memtable, capacity, compaction_kill_flag, fg, cp, map,
          deleted, last, ops, crashes>>

Idle == [pc |-> "idle", next_segment_id |-> 0]
NoCall == [op |-> "none", key |-> << >>, value |-> << >>, ret |-> Ok(None),
           flushed |-> FALSE, was_full |-> FALSE]
Unlocked == [readers |-> {}, writer |-> "none", poisoned |-> FALSE]
CompactorAt(pc) == [pc |-> pc]

\* Engine::with_args on a directory that does not exist yet: the directory is
\* created, the segment list is empty, open_wal creates wal.dat, replay_wal
\* finds nothing, and the compaction thread stands at the top of its loop.
Init ==
    /\ dir = Put(<< >>, wal_path, << >>)
    /\ segments = << >>
    /\ lock = Unlocked
    /\ memtable = EmptyTree
    /\ capacity \in 1..MaxCapacity
    /\ compaction_kill_flag = FALSE
    /\ fg = Idle
    /\ cp = CompactorAt("loop")
    /\ map = [k \in Keys |-> None]
    /\ deleted = {}
    /\ last = NoCall
    /\ ops = 0
    /\ crashes = 0

\* ------------------------------------------------------------- reads
\* Store::get below the read lock: the segments are opened newest first and
\* the first one that knows the key decides.  Opening a segment reads the
\* whole file to build its Bloom filter and sparse index, so an entry cut
\* short by the end of the file panics there.  false_positives is the set of
\* segment paths whose Bloom filter answers true for a key it does not hold.
\* Store::get without `.rev()`: the segments are opened oldest first.
RECURSIVE StoreScan_oldest_first(_, _, _, _, _)
StoreScan_oldest_first(d, segs, i, key, false_positives) ==
    IF i < 1 THEN Ok(None)
    ELSE LET path == segs[Len(segs) + 1 - i]
         IN  IF path \notin DOMAIN d THEN Err("Io")
             ELSE IF EntryIter_end(d[path]) = "panic" THEN Panicked
             ELSE LET found == Segment_get(d[path], key, path \in false_positives)
                  IN  IF found # None THEN Ok(found[1])
                      ELSE StoreScan_oldest_first(d, segs, i - 1, key, false_positives)

RECURSIVE StoreScan(_, _, _, _, _)
StoreScan(d, segs, i, key, false_positives) ==
    IF i < 1 THEN Ok(None)
    ELSE IF segs[i] \notin DOMAIN d THEN Err("Io")
    ELSE IF EntryIter_end(d[segs[i]]) = "panic" THEN Panicked
    ELSE LET found == Segment_get(d[segs[i]], key, segs[i] \in false_positives)
         IN  IF found # None THEN Ok(found[1])
             ELSE StoreScan(d, segs, i - 1, key, false_positives)

\* Store::get with the error of segments.read() dropped.
Store_get_ignores_poison(d, segs, lk, key, false_positives) ==
    StoreScan(d, segs, Len(segs), key, false_positives)

Store_get(d, segs, lk, key, false_positives) ==
    IF lk.poisoned THEN Err("Poison")
    ELSE StoreScan(d, segs, Len(segs), key, false_positives)

\* Engine::get.
Engine_get(tree, d, segs, lk, key, false_positives) ==
    IF Memtable_get(tree, key) # None THEN Ok(Memtable_get(tree, key)[1])
    ELSE Store_get(d, segs, lk, key, false_positives)

SegmentSet == {segments[i] : i \in 1..Len(segments)}

\* Engine::get of the engine thread.  A key the memtable does not know needs
\* the read lock, which waits while the lock is held for writing.
Get(key) ==
    /\ fg.pc = "idle"
    /\ Memtable_get(memtable, key) = None => lock.writer = "none"
    /\ \E false_positives \in {{}, SegmentSet} :
          last' = [op |-> "get", key |-> key, value |-> << >>,
                   ret |-> Engine_get(memtable, dir, segments, lock, key, false_positives),
                   flushed |-> FALSE, was_full |-> FALSE]
    /\ fg' = IF last'.ret = Panicked THEN [Idle EXCEPT !.pc = "panicked"] ELSE fg
    /\ UNCHANGED <<dir, segments, lock, memtable, capacity, compaction_kill_flag, cp, map, deleted, ops,
                   crashes>>

\* ------------------------------------------------------------- writes
\* Engine::set without the call of Store::set: the WAL is left as it is.
Set_without_wal(key, value) ==
    /\ fg.pc = "idle"
    /\ ops < MaxOps
    /\ dir' = dir
    /\ memtable' = Memtable_set(memtable, key, value)
    /\ fg' = IF full(memtable', capacity) THEN [Idle EXCEPT !.pc = "flush_read"] ELSE Idle
    /\ map' = [map EXCEPT ![key] = Some(value)]
    /\ deleted' = deleted \ {key}
    /\ last' = [op |-> "set", key |-> key, value |-> value, ret |-> Ok(None),
                flushed |-> FALSE, was_full |-> full(memtable', capacity)]
    /\ ops' = ops + 1
    /\ UNCHANGED <<segments, lock, capacity, compaction_kill_flag, cp, crashes>>

\* Engine::set up to the capacity test: Store::set appends to the WAL,
\* Memtable::set updates the tree, and a full memtable starts a flush.
Set(key, value) ==
    /\ fg.pc = "idle"
    /\ ops < MaxOps
    /\ IF TooLarge(key) \/ TooLarge(value)
       THEN /\ last' = [op |-> "set", key |-> key, value |-> value, ret |-> Err("TooLarge"),
                        flushed |-> FALSE, was_full |-> FALSE]
            /\ UNCHANGED <<dir, memtable, fg, map, deleted>>
       ELSE /\ dir' = [dir EXCEPT ![wal_path] = write(@, key, value)]
            /\ memtable' = Memtable_set(memtable, key, value)
            /\ fg' = IF full(memtable', capacity) THEN [Idle EXCEPT !.pc = "flush_read"] ELSE Idle
            /\ map' = [map EXCEPT ![key] = Some(value)]
            /\ deleted' = deleted \ {key}
            /\ last' = [op |-> "set", key |-> key, value |-> value, ret |-> Ok(None),
                        flushed |-> FALSE, was_full |-> full(memtable', capacity)]
    /\ ops' = ops + 1
    /\ UNCHANGED <<segments, lock, capacity, compaction_kill_flag, cp, crashes>>

\* Engine::delete: Store::delete appends a tombstone to the WAL and
\* Memtable::delete marks the key; there is no capacity test.
Delete(key) ==
    /\ fg.pc = "idle"
    /\ ops < MaxOps
    /\ IF TooLarge(key)
       THEN /\ last' = [op |-> "delete", key |-> key, value |-> << >>, ret |-> Err("TooLarge"),
                        flushed |-> FALSE, was_full |-> FALSE]
            /\ UNCHANGED <<dir, memtable, fg, map, deleted>>
       ELSE /\ dir' = [dir EXCEPT ![wal_path] = tombstone(@, key)]
            /\ memtable' = Memtable_delete(memtable, key)
            /\ fg' = Idle
            /\ map' = [map EXCEPT ![key] = None]
            /\ deleted' = deleted \cup {key}
            /\ last' = [op |-> "delete", key |-> key, value |-> << >>, ret |-> Ok(None),
                        flushed |-> FALSE, was_full |-> full(memtable', capacity)]
    /\ ops' = ops + 1
    /\ UNCHANGED <<segments, lock, capacity, compaction_kill_flag, cp, crashes>>

\* Store::write_memtable, first statement: the id of the last segment of the
\* list is read under the read lock; the new id is one more.
last_segment_id(segs) ==
    IF Len(segs) = 0 THEN 0
    ELSE LET id == segment_id(segs[Len(segs)]) IN IF id = None THEN 0 ELSE id[1]

FlushReadId ==
    /\ fg.pc = "flush_read"
    /\ lock.writer = "none"
    /\ IF lock.poisoned
       THEN /\ fg' = Idle
            /\ last' = [last EXCEPT !.ret = Err("Poison")]
       ELSE /\ fg' = [pc |-> "flush_create",
                      next_segment_id |-> last_segment_id(segments) + 1]
            /\ last' = last
    /\ UNCHANGED <<dir, segments, lock, memtable, capacity, compaction_kill_flag, cp, map, deleted, ops,
                   crashes>>

\* Store::write_memtable: File::create of the new segment (truncating a file
\* that is already there) and the loop that writes the memtable into it.
FlushCreate ==
    /\ fg.pc = "flush_create"
    /\ dir' = Put(dir, segment_filename(fg.next_segment_id),
                  WriteEntries(memtable, Memtable_iter(memtable), 1, << >>))
    /\ fg' = [fg EXCEPT !.pc = "flush_push"]
    /\ UNCHANGED <<segments, lock, memtable, capacity, compaction_kill_flag, cp, map, deleted, last, ops,
                   crashes>>

\* push_back on the list without waiting for the lock.
FlushPush_without_lock ==
    /\ fg.pc = "flush_push"
    /\ IF lock.poisoned
       THEN /\ fg' = Idle
            /\ last' = [last EXCEPT !.ret = Err("Poison")]
            /\ segments' = segments
       ELSE /\ fg' = [fg EXCEPT !.pc = "flush_wal"]
            /\ last' = last
            /\ segments' = Append(segments, segment_filename(fg.next_segment_id))
    /\ UNCHANGED <<dir, lock, memtable, capacity, compaction_kill_flag, cp, map, deleted, ops, crashes>>

\* write_memtable with push_front in the place of push_back.
FlushPush_push_front ==
    /\ fg.pc = "flush_push"
    /\ lock.writer = "none" /\ lock.readers = {}
    /\ IF lock.poisoned
       THEN /\ fg' = Idle
            /\ last' = [last EXCEPT !.ret = Err("Poison")]
            /\ segments' = segments
       ELSE /\ fg' = [fg EXCEPT !.pc = "flush_wal"]
            /\ last' = last
            /\ segments' = <<segment_filename(fg.next_segment_id)>> \o segments
    /\ UNCHANGED <<dir, lock, memtable, capacity, compaction_kill_flag, cp, map, deleted, ops, crashes>>

\* Store::write_memtable: push_back under the write lock.
FlushPush ==
    /\ fg.pc = "flush_push"
    /\ lock.writer = "none" /\ lock.readers = {}
    /\ IF lock.poisoned
       THEN /\ fg' = Idle
            /\ last' = [last EXCEPT !.ret = Err("Poison")]
            /\ segments' = segments
       ELSE /\ fg' = [fg EXCEPT !.pc = "flush_wal"]
            /\ last' = last
            /\ segments' = Append(segments, segment_filename(fg.next_segment_id))
    /\ UNCHANGED <<dir, lock, memtable, capacity, compaction_kill_flag, cp, map, deleted, ops, crashes>>

\* The end of the flush without the removal of the WAL.
FlushFinish_keeps_wal ==
    /\ fg.pc = "flush_wal"
    /\ dir' = dir
    /\ memtable' = EmptyTree
    /\ fg' = Idle
    /\ last' = [last EXCEPT !.flushed = TRUE]
    /\ UNCHANGED <<segments, lock, capacity, compaction_kill_flag, cp, map, deleted, ops, crashes>>

\* Store::write_memtable: the WAL is removed and opened anew (empty); then
\* Engine::flush_memtable resets the memtable and the call returns.
FlushFinish ==
    /\ fg.pc = "flush_wal"
    /\ dir' = Put(Remove(dir, wal_path), wal_path, << >>)
    /\ memtable' = EmptyTree
    /\ fg' = Idle
    /\ last' = [last EXCEPT !.flushed = TRUE]
    /\ UNCHANGED <<segments, lock, capacity, compaction_kill_flag, cp, map, deleted, ops, crashes>>

\* ------------------------------------------------------------- compaction loop
\* A panic of the compaction thread: its guards are dropped by the unwinding,
\* and a write guard dropped by a panic poisons the lock.
PanicUnlock(lk) ==
    [readers |-> lk.readers \ {"compactor"},
     writer |-> "none",
     poisoned |-> lk.poisoned \/ lk.writer = "compactor"]

\* The top of the loop taking the exclusive lock for the merge.
CompTick_takes_write_lock ==
    /\ cp.pc = "loop"
    /\ ~compaction_kill_flag
    /\ lock.writer = "none" /\ lock.readers = {}
    /\ IF lock.poisoned
       THEN cp' = CompactorAt("panicked") /\ lock' = lock
       ELSE IF Len(segments) >= 2
       THEN IF segments[1] \in DOMAIN dir /\ segments[2] \in DOMAIN dir
            THEN /\ cp' = CompactorAt("compact")
                 /\ lock' = [lock EXCEPT !.writer = "compactor"]
            ELSE cp' = CompactorAt("panicked") /\ lock' = lock
       ELSE cp' = CompactorAt("loop") /\ lock' = lock
    /\ UNCHANGED <<dir, segments, memtable, capacity, compaction_kill_flag, fg, map, deleted, last, ops,
                   crashes>>

\* The tick with `segments_read.len() >= 1` as its test: one segment is
\* enough to begin a step.
CompTick_one_segment_is_enough ==
    /\ cp.pc = "loop"
    /\ ~compaction_kill_flag
    /\ lock.writer = "none"
    /\ IF lock.poisoned
       THEN cp' = CompactorAt("panicked") /\ lock' = lock
       ELSE IF Len(segments) >= 1
       THEN IF \A i \in 1..Len(segments) : i <= 2 => segments[i] \in DOMAIN dir
            THEN /\ cp' = CompactorAt("compact")
                 /\ lock' = [lock EXCEPT !.readers = @ \cup {"compactor"}]
            ELSE cp' = CompactorAt("panicked") /\ lock' = lock
       ELSE cp' = CompactorAt("loop") /\ lock' = lock
    /\ UNCHANGED <<dir, segments, memtable, capacity, compaction_kill_flag, fg, map, deleted, last, ops,
                   crashes>>

\* One pass of the loop body from the kill-flag test to the end of the
\* `if segments_read.len() >= 2` test: with two segments or more the two
\* oldest files are opened and the read lock is kept for the merge; otherwise
\* there is nothing to do.  (A pass in which the interval has not elapsed
\* changes nothing.)
CompTick ==
    /\ cp.pc = "loop"
    /\ ~compaction_kill_flag
    /\ lock.writer = "none"
    /\ IF lock.poisoned
       THEN cp' = CompactorAt("panicked") /\ lock' = lock
       ELSE IF Len(segments) >= 2
       THEN IF segments[1] \in DOMAIN dir /\ segments[2] \in DOMAIN dir
            THEN /\ cp' = CompactorAt("compact")
                 /\ lock' = [lock EXCEPT !.readers = @ \cup {"compactor"}]
            ELSE cp' = CompactorAt("panicked") /\ lock' = lock
       ELSE cp' = CompactorAt("loop") /\ lock' = lock
    /\ UNCHANGED <<dir, segments, memtable, capacity, compaction_kill_flag, fg, map, deleted, last, ops,
                   crashes>>

\* compact(first, second, new-segment.dat): create_new fails when the file is
\* already there; otherwise the merged entries are written to it.
CompCompact ==
    /\ cp.pc = "compact"
    /\ IF new_segment_path \in DOMAIN dir
       THEN /\ cp' = CompactorAt("panicked")
            /\ lock' = PanicUnlock(lock)
            /\ dir' = dir
       ELSE /\ cp' = CompactorAt("drop_read")
            /\ lock' = lock
            /\ dir' = Put(dir, new_segment_path, compact(dir[segments[1]], dir[segments[2]]))
    /\ UNCHANGED <<segments, memtable, capacity, compaction_kill_flag, fg, map, deleted, last, ops, crashes>>

\* The merge pass without drop(segments_read): the read guard is still held
\* when the thread asks for the write lock.
CompDropRead_keeps_guard ==
    /\ cp.pc = "drop_read"
    /\ cp' = CompactorAt("lock_write")
    /\ lock' = lock
    /\ UNCHANGED <<dir, segments, memtable, capacity, compaction_kill_flag, fg, map, deleted, last, ops,
                   crashes>>

\* drop(segments_read).
CompDropRead ==
    /\ cp.pc = "drop_read"
    /\ cp' = CompactorAt("lock_write")
    /\ lock' = [lock EXCEPT !.readers = @ \ {"compactor"}]
    /\ UNCHANGED <<dir, segments, memtable, capacity, compaction_kill_flag, fg, map, deleted, last, ops,
                   crashes>>

\* The swap entered with segments.read() in the place of segments.write().
CompLockWrite_takes_read_lock ==
    /\ cp.pc = "lock_write"
    /\ lock.writer = "none"
    /\ IF lock.poisoned
       THEN cp' = CompactorAt("panicked") /\ lock' = lock
       ELSE /\ cp' = CompactorAt("remove_first")
            /\ lock' = [lock EXCEPT !.readers = @ \cup {"compactor"}]
    /\ UNCHANGED <<dir, segments, memtable, capacity, compaction_kill_flag, fg, map, deleted, last, ops,
                   crashes>>

\* segments.write().
CompLockWrite ==
    /\ cp.pc = "lock_write"
    /\ lock.writer = "none" /\ lock.readers = {}
    /\ IF lock.poisoned
       THEN cp' = CompactorAt("panicked") /\ lock' = lock
       ELSE cp' = CompactorAt("remove_first") /\ lock' = [lock EXCEPT !.writer = "compactor"]
    /\ UNCHANGED <<dir, segments, memtable, capacity, compaction_kill_flag, fg, map, deleted, last, ops,
                   crashes>>

\* The first remove_file of the swap given the path of the WAL.
CompRemoveFirst_removes_wal ==
    /\ cp.pc = "remove_first"
    /\ dir' = Remove(dir, wal_path)
    /\ cp' = CompactorAt("remove_second")
    /\ lock' = lock
    /\ UNCHANGED <<segments, memtable, capacity, compaction_kill_flag, fg, map, deleted, last, ops, crashes>>

\* fs::remove_file(&segments_write[0]).
CompRemoveFirst ==
    /\ cp.pc = "remove_first"
    /\ IF segments[1] \in DOMAIN dir
       THEN /\ dir' = Remove(dir, segments[1])
            /\ cp' = CompactorAt("remove_second")
            /\ lock' = lock
       ELSE /\ dir' = dir
            /\ cp' = CompactorAt("panicked")
            /\ lock' = PanicUnlock(lock)
    /\ UNCHANGED <<segments, memtable, capacity, compaction_kill_flag, fg, map, deleted, last, ops, crashes>>

\* fs::remove_file(&segments_write[1]).
CompRemoveSecond ==
    /\ cp.pc = "remove_second"
    /\ IF segments[2] \in DOMAIN dir
       THEN /\ dir' = Remove(dir, segments[2])
            /\ cp' = CompactorAt("rename")
            /\ lock' = lock
       ELSE /\ dir' = dir
            /\ cp' = CompactorAt("panicked")
            /\ lock' = PanicUnlock(lock)
    /\ UNCHANGED <<segments, memtable, capacity, compaction_kill_flag, fg, map, deleted, last, ops, crashes>>

\* The swap with pop_back in the place of pop_front.
CompSwap_pops_back ==
    /\ cp.pc = "rename"
    /\ IF new_segment_path \in DOMAIN dir
       THEN /\ dir' = Put(Remove(dir, new_segment_path), segments[2], dir[new_segment_path])
            /\ segments' = SubSeq(segments, 1, Len(segments) - 1)
            /\ cp' = CompactorAt("loop")
            /\ lock' = [lock EXCEPT !.writer = "none"]
       ELSE /\ dir' = dir
            /\ segments' = segments
            /\ cp' = CompactorAt("panicked")
            /\ lock' = PanicUnlock(lock)
    /\ UNCHANGED <<memtable, capacity, compaction_kill_flag, fg, map, deleted, last, ops, crashes>>

\* The swap with the merged file renamed to the path of the first segment,
\* the one pop_front drops from the list.
CompSwap_rename_to_first ==
    /\ cp.pc = "rename"
    /\ IF new_segment_path \in DOMAIN dir
       THEN /\ dir' = Put(Remove(dir, new_segment_path), segments[1], dir[new_segment_path])
            /\ segments' = Tail(segments)
            /\ cp' = CompactorAt("loop")
            /\ lock' = [lock EXCEPT !.writer = "none"]
       ELSE /\ dir' = dir
            /\ segments' = segments
            /\ cp' = CompactorAt("panicked")
            /\ lock' = PanicUnlock(lock)
    /\ UNCHANGED <<memtable, capacity, compaction_kill_flag, fg, map, deleted, last, ops, crashes>>

\* fs::rename(new-segment.dat, &segments_write[1]); segments_write.pop_front();
\* the write guard is dropped at the end of the block, and after the sleep
\* the thread is back at the kill-flag test.
CompSwap ==
    /\ cp.pc = "rename"
    /\ IF new_segment_path \in DOMAIN dir
       THEN /\ dir' = Put(Remove(dir, new_segment_path), segments[2], dir[new_segment_path])
            /\ segments' = Tail(segments)
            /\ cp' = CompactorAt("loop")
            /\ lock' = [lock EXCEPT !.writer = "none"]
       ELSE /\ dir' = dir
            /\ segments' = segments
            /\ cp' = CompactorAt("panicked")
            /\ lock' = PanicUnlock(lock)
    /\ UNCHANGED <<memtable, capacity, compaction_kill_flag, fg, map, deleted, last, ops, crashes>>

SetCall == \E key \in Keys, value \in Values : Set(key, value)
DeleteCall == \E key \in Keys : Delete(key)
GetCall == \E key \in Keys : Get(key)

\* ------------------------------------------------------------- specifications
\* The engine with its compaction thread, started on a fresh directory.
Next ==
    \/ SetCall
    \/ DeleteCall
    \/ GetCall
    \/ FlushReadId
    \/ FlushCreate
    \/ FlushPush
    \/ FlushFinish
    \/ CompTick
    \/ CompCompact
    \/ CompDropRead
    \/ CompLockWrite
    \/ CompRemoveFirst
    \/ CompRemoveSecond
    \/ CompSwap

Spec == Init /\ [][Next]_vars

\* The engine started with compaction_enabled = false: no compaction thread.
InitNoCompaction ==
    /\ dir = Put(<< >>, wal_path, << >>)
    /\ segments = << >>
    /\ lock = Unlocked
    /\ memtable = EmptyTree
    /\ capacity \in 1..MaxCapacity
    /\ compaction_kill_flag = FALSE
    /\ fg = Idle
    /\ cp = CompactorAt("disabled")
    /\ map = [k \in Keys |-> None]
    /\ deleted = {}
    /\ last = NoCall
    /\ ops = 0
    /\ crashes = 0

NextNoCompaction ==
    \/ SetCall
    \/ DeleteCall
    \/ GetCall
    \/ FlushReadId
    \/ FlushCreate
    \/ FlushPush
    \/ FlushFinish

SpecNoCompaction == InitNoCompaction /\ [][NextNoCompaction]_vars

\* ------------------------------------------------------------- crash, restart
\* The orders in which a directory enumeration can return a set of paths.
RECURSIVE Enumerations(_)
Enumerations(S) ==
    IF S = {} THEN {<< >>}
    ELSE UNION {{<<x>> \o rest : rest \in Enumerations(S \ {x})} : x \in S}

\* initialize_store_at_path on an existing directory: the regular files with
\* a segment file name, in the order read_dir returns them.
initialize_store_at_path(d) ==
    Enumerations({path \in DOMAIN d : is_segment_filename(path)})

\* open_wal: wal.dat is created when it is missing and kept otherwise.
open_wal(d) == IF wal_path \in DOMAIN d THEN d ELSE Put(d, wal_path, << >>)

\* The process dies between two calls of the engine thread, wherever the
\* compaction thread is, and Engine::with_args runs again on the directory:
\* Store::new lists the segments, opens the WAL and spawns the compaction
\* thread (unless the arguments disable compaction), and replay_wal rebuilds
\* the memtable: it applies the entries the iterator yields and returns Ok
\* when the iterator ends, or panics with it.
CrashRestart ==
    /\ fg.pc = "idle"
    /\ crashes < MaxCrashes
    /\ segments' \in initialize_store_at_path(dir)
    /\ dir' = open_wal(dir)
    /\ memtable' = replay_wal(dir'[wal_path], EmptyTree)
    /\ lock' = Unlocked
    /\ compaction_kill_flag' = FALSE
    /\ cp' = IF cp.pc = "disabled" THEN cp ELSE CompactorAt("loop")
    /\ IF wal_path \in DOMAIN dir /\ EntryIter_end(dir[wal_path]) = "panic"
       THEN /\ fg' = [Idle EXCEPT !.pc = "panicked"]
            /\ last' = [NoCall EXCEPT !.op = "restart", !.ret = Panicked]
       ELSE /\ fg' = Idle
            /\ last' = [NoCall EXCEPT !.op = "restart"]
    /\ crashes' = crashes + 1
    /\ UNCHANGED <<capacity, map, deleted, ops>>

NextCrash ==
    \/ SetCall
    \/ DeleteCall
    \/ GetCall
    \/ FlushReadId
    \/ FlushCreate
    \/ FlushPush
    \/ FlushFinish
    \/ CompTick
    \/ CompCompact
    \/ CompDropRead
    \/ CompLockWrite
    \/ CompRemoveFirst
    \/ CompRemoveSecond
    \/ CompSwap
    \/ CrashRestart

SpecCrash == Init /\ [][NextCrash]_vars

\* ------------------------------------------------------------- compaction law
\* Every memtable over Keys and Values, and the segment files write_memtable
\* produces from the non-empty ones.
Options == {None} \cup {Some(v) : v \in Values}
Trees == UNION {[ks -> Options] : ks \in SUBSET Keys}
FlushedFile(tree) == WriteEntries(tree, Memtable_iter(tree), 1, << >>)
FlushedFiles == {FlushedFile(tree) : tree \in Trees \ {EmptyTree}}

\* What a reader that walks the entries of a file from the start finds for a
\* key: an Option<Option<String>>.
RECURSIVE FirstEntry(_, _, _)
FirstEntry(entries, i, key) ==
    IF i > Len(entries) THEN None
    ELSE IF entries[i].key = key
         THEN IF entries[i].type = "Assignment" THEN Some(Some(entries[i].value))
              ELSE Some(None)
    ELSE FirstEntry(entries, i + 1, key)

lookup(file, key) == FirstEntry(from_start(file), 1, key)

\* The newest-first lookup over a list of files (oldest first): an
\* Option<Option<String>>.
RECURSIVE lookup_newest_first(_, _, _)
lookup_newest_first(files, i, key) ==
    IF i < 1 THEN None
    ELSE IF lookup(files[i], key) # None THEN lookup(files[i], key)
    ELSE lookup_newest_first(files, i - 1, key)

Flatten(found) == IF found = None THEN None ELSE found[1]

\* An engine with an empty memtable and WAL running on a directory that holds
\* three segments written by earlier flushes, the compaction thread at the
\* top of its loop.
InitLaw ==
    /\ \E f1 \in FlushedFiles, f2 \in FlushedFiles, f3 \in FlushedFiles :
          /\ dir = Put(Put(Put(Put(<< >>, wal_path, << >>),
                               segment_filename(1), f1),
                           segment_filename(2), f2),
                       segment_filename(3), f3)
          /\ map = [k \in Keys |-> Flatten(lookup_newest_first(<<f1, f2, f3>>, 3, k))]
          /\ deleted = {k \in Keys : lookup_newest_first(<<f1, f2, f3>>, 3, k) = Some(None)}
    /\ segments = <<segment_filename(1), segment_filename(2), segment_filename(3)>>
    /\ lock = Unlocked
    /\ memtable = EmptyTree
    /\ capacity = MaxCapacity
    /\ compaction_kill_flag = FALSE
    /\ fg = Idle
    /\ cp = CompactorAt("loop")
    /\ last = NoCall
    /\ ops = MaxOps
    /\ crashes = 0

NextLaw ==
    \/ CompTick
    \/ CompCompact
    \/ CompDropRead
    \/ CompLockWrite
    \/ CompRemoveFirst
    \/ CompRemoveSecond
    \/ CompSwap

SpecLaw == InitLaw /\ [][NextLaw]_vars

\* ------------------------------------------------------------- properties
\* The engine thread is between calls and a reader can take the read lock.
Readable == fg.pc = "idle" /\ lock.writer = "none" /\ ~lock.poisoned

BloomOutcomes == {{}, SegmentSet}

\* Engine::get of every key answers what the reference map holds.
GetsEqualMap ==
    \A key \in Keys, false_positives \in BloomOutcomes :
        Engine_get(memtable, dir, segments, lock, key, false_positives) = Ok(map[key])

ListedFiles == [i \in 1..Len(segments) |-> dir[segments[i]]]
EntriesOf(path) == from_start(dir[path])
Holds(path, entry) ==
    /\ path \in DOMAIN dir
    /\ \E i \in 1..Len(EntriesOf(path)) : EntriesOf(path)[i] = entry
StrictlyAscending(entries) ==
    \A i \in 1..Len(entries), j \in 1..Len(entries) :
        i < j => StrLess(entries[i].key, entries[j].key)
EntryFor(tree, key) ==
    IF tree[key] = None THEN Tombstone(key) ELSE Assignment(key, tree[key][1])
Mutation(call) ==
    IF call.op = "set" THEN Assignment(call.key, call.value) ELSE Tombstone(call.key)
Returned(call) == call.op \in {"set", "delete"} /\ call.ret.tag = "Ok"

\* C1: with compaction disabled, between calls every get(K) returns what the
\* reference map holds for K (the value of the last set not followed by a
\* delete, None otherwise), and every get call made has returned exactly that.
C1_EngineEqualsReferenceMap ==
    /\ fg.pc = "idle" => GetsEqualMap
    /\ last.op = "get" => last.ret = Ok(map[last.key])

\* A get answered from the newest of two segments that both hold the key with
\* different values.
C1_Witness ==
    /\ cp.pc = "disabled"
    /\ last.op = "get"
    /\ Memtable_get(memtable, last.key) = None
    /\ Len(segments) >= 2
    /\ last.ret.val # None
    /\ lookup(dir[segments[1]], last.key) \notin {None, Some(None), Some(last.ret.val)}

\* C2: with the compaction thread interleaved, whenever a get can run it
\* returns for every key what the reference map holds, also once the
\* compactor has reduced the list to fewer than two segments; every get call
\* made has returned exactly that.
C2_CompactionKeepsGetsEqual ==
    /\ Readable => GetsEqualMap
    /\ last.op = "get" => last.ret = Ok(map[last.key])
    /\ (Readable /\ Len(segments) < 2) =>
          \A key \in Keys \ DOMAIN memtable :
              Flatten(lookup_newest_first(ListedFiles, Len(segments), key)) = map[key]

\* A get answered from the single segment a compaction step left behind.
C2_Witness ==
    /\ cp.pc = "loop"
    /\ last.op = "get"
    /\ last.ret.val # None
    /\ Memtable_get(memtable, last.key) = None
    /\ Len(segments) = 1
    /\ segments[1].id >= 2
    /\ Len(EntriesOf(segments[1])) >= 2

\* C3: after a crash between two calls and a restart, a get of every key
\* returns the value the key had when the last call returned.
C3_RecoveryLaw ==
    (last.op = "restart" /\ Readable) => GetsEqualMap

\* The recovery law of C3 for the restarts in which the directory enumeration
\* returned the segments in id order.
C3_RecoveryLawInIdOrder ==
    (/\ last.op = "restart"
     /\ Readable
     /\ \A i \in 1..Len(segments), j \in 1..Len(segments) :
           i < j => segments[i].id < segments[j].id)
        => GetsEqualMap

EntriesExactly(entries, tree) ==
    /\ StrictlyAscending(entries)
    /\ Len(entries) = Cardinality(DOMAIN tree)
    /\ {entries[i] : i \in 1..Len(entries)} = {EntryFor(tree, key) : key \in DOMAIN tree}

FlushPushStep == fg.pc = "flush_push" /\ fg'.pc = "flush_wal"
FlushReturnStep == fg.pc = "flush_wal" /\ fg'.pc = "idle"

C6_FlushExactlyWhenFull ==
    (fg.pc = "idle" /\ Returned(last)) =>
        /\ last.flushed <=> last.was_full
        /\ Cardinality(DOMAIN memtable) < capacity

\* C7: once compact has written the merged file C of the two oldest segments
\* A and B, a lookup of every key in C gives what B holds for the key if B
\* has an entry for it, otherwise what A holds, otherwise nothing; this is so
\* for the first merge and for the merge of its result with a third segment.
C7_CompactionLaw ==
    cp.pc = "drop_read" =>
        \A key \in Keys :
            LET expected == lookup_newest_first(
                                <<dir[segments[1]], dir[segments[2]]>>, 2, key)
            IN  /\ lookup(dir[new_segment_path], key) = expected
                /\ \A false_positive \in BOOLEAN :
                       Segment_get(dir[new_segment_path], key, false_positive) = expected

\* The second merge: the result of a first merge is merged with a third
\* segment that overrides one of its keys and lacks another.
C7_Witness ==
    /\ cp.pc = "drop_read"
    /\ Len(segments) = 2
    /\ \E k1 \in Keys, k2 \in Keys :
          /\ lookup(dir[segments[1]], k1) # None
          /\ lookup(dir[segments[2]], k1) # None
          /\ lookup(dir[segments[1]], k1) # lookup(dir[segments[2]], k1)
          /\ lookup(dir[segments[1]], k2) # None
          /\ lookup(dir[segments[2]], k2) = None

\* The newest record of a key: the memtable's, else the newest segment's.
NewestRecord(key) ==
    IF key \in DOMAIN memtable THEN Some(memtable[key])
    ELSE lookup_newest_first(ListedFiles, Len(segments), key)

\* C8: for every key whose last mutation is a delete, whenever a get can run
\* it returns None, and the newest record of the key (in the memtable, or
\* else in the newest segment that has one) is a tombstone, whatever flushes
\* and compaction steps have happened since.
C8_TombstoneShadows ==
    Readable =>
        \A key \in deleted :
            /\ \A false_positives \in BloomOutcomes :
                   Engine_get(memtable, dir, segments, lock, key, false_positives) = Ok(None)
            /\ NewestRecord(key) = Some(None)

\* A merge in which the tombstone of a deleted key, flushed to the newer
\* segment, has won over the assignment of the key in the older segment.
C8_Witness ==
    /\ cp.pc = "drop_read"
    /\ fg.pc = "idle"
    /\ \E key \in deleted :
          /\ key \notin DOMAIN memtable
          /\ lookup(dir[segments[1]], key) \notin {None, Some(None)}
          /\ lookup(dir[segments[2]], key) = Some(None)
          /\ lookup(dir[new_segment_path], key) = Some(None)

\* C9: every file of the segment list holds entries whose keys are strictly
\* ascending.
C9_SegmentKeysStrictlyAscending ==
    \A path \in SegmentSet :
        path \in DOMAIN dir => StrictlyAscending(EntriesOf(path))

\* A segment produced by a compaction step that holds two keys.
C9_Witness ==
    /\ Len(segments) >= 1
    /\ segments[1].id >= 2
    /\ segments[1] \in DOMAIN dir
    /\ cp.pc = "loop"
    /\ Len(EntriesOf(segments[1])) >= 2

\* C10: the ids of the paths of the segment list increase strictly from the
\* front to the back.
C10_SegmentIdsIncrease ==
    \A i \in 1..Len(segments), j \in 1..Len(segments) :
        i < j => segments[i].id < segments[j].id

\* ------------------------------------------------------------- store initialization
\* The segment files of the directory.
SegmentFiles == {path \in DOMAIN dir : is_segment_filename(path)}

IdsAscending(segs) ==
    \A i \in 1..Len(segs), j \in 1..Len(segs) : i < j => segs[i].id < segs[j].id

\* C11: right after Store::new on an existing directory, the segment list
\* holds exactly the segment files of the directory, each once, ordered by id
\* ascending, whatever the order of the directory enumeration.
C11_InitializationListsSegmentsById ==
    last.op = "restart" =>
        /\ SegmentSet = SegmentFiles
        /\ Len(segments) = Cardinality(SegmentFiles)
        /\ IdsAscending(segments)

\* ------------------------------------------------------------- segment naming
MaxId(segs) ==
    CHOOSE m \in {segs[i].id : i \in 1..Len(segs)} :
        \A i \in 1..Len(segs) : segs[i].id <= m

FlushReadIdStep == fg.pc = "flush_read" /\ fg'.pc = "flush_create"

\* C12: a flush names its new segment max(ids of the list) + 1, and 0 when the
\* list is empty, so the new path is the path of no segment of the list.
C12_NextIdIsMaxPlusOne ==
    [][FlushReadIdStep =>
          /\ fg'.next_segment_id = IF segments = << >> THEN 0 ELSE MaxId(segments) + 1
          /\ segment_filename(fg'.next_segment_id) \notin SegmentSet]_vars

\* The part of C12 about lists that are not empty: the id of the new segment
\* is above every id of the list.
C12_NextIdAboveListedIds ==
    [][(FlushReadIdStep /\ segments # << >>) =>
          /\ fg'.next_segment_id = MaxId(segments) + 1
          /\ segment_filename(fg'.next_segment_id) \notin SegmentSet]_vars

\* ------------------------------------------------------------- compaction step
\* The compaction thread is inside a step: between the test that found two
\* segments and the end of the swap.
StepInProgress ==
    cp.pc \in {"compact", "drop_read", "lock_write", "remove_first", "remove_second", "rename"}
RestartStep == crashes' # crashes
SwapStep == cp.pc = "rename" /\ cp'.pc = "loop" /\ ~RestartStep

\* The entries of the list from the third on keep their files as they are.
RestKeepsFiles ==
    \A i \in 3..Len(segments) :
        segments[i] \in DOMAIN dir =>
            segments[i] \in DOMAIN dir' /\ dir'[segments[i]] = dir[segments[i]]

Answers(files) == [key \in Keys |-> lookup_newest_first(files, Len(files), key)]

\* The files the list names once the swap under way is over: the merged file,
\* then the files of the entries from the third on.
PendingFiles ==
    [i \in 1..(Len(segments) - 1) |->
        IF i = 1 THEN dir[new_segment_path] ELSE dir[segments[i + 1]]]

ReaderCanHoldLock == lock.writer = "none" /\ ~lock.poisoned

\* Whenever a reader can hold the read lock, every file the list names exists.
ListedFilesExist == ReaderCanHoldLock => \A path \in SegmentSet : path \in DOMAIN dir

\* The merged file is written and the swap has not begun: readers still read
\* the two segments it was merged from.
MergedFileWaits == cp.pc \in {"drop_read", "lock_write"}

SharedXorExclusive == ~(lock.writer # "none" /\ lock.readers # {})

\* A step of the engine thread that reads the list: a get of a key the
\* memtable does not know, or the first statement of write_memtable.
EngineReadsList ==
    \/ last' # last /\ last'.op = "get" /\ Memtable_get(memtable, last'.key) = None
    \/ fg.pc = "flush_read" /\ fg' # fg

\* C15: shared and exclusive holders never coexist.  The engine thread reads
\* the list (get, the id of write_memtable) only when the shared lock can be
\* had (no exclusive holder), and appends to it only when the exclusive lock
\* can be had (no holder at all).  The compaction thread merges holding the
\* shared lock and changes the list and the listed files only holding the
\* exclusive lock.  The flush writes its segment file without the lock: that
\* step never waits, whoever holds the lock.
C15_LockDiscipline ==
    [][/\ SharedXorExclusive /\ SharedXorExclusive'
       /\ (fg.pc = "flush_create" => ENABLED FlushCreate)
       /\ ~RestartStep =>
             /\ EngineReadsList => lock.writer = "none"
             /\ (segments' # segments /\ fg' # fg) =>
                    lock.writer = "none" /\ lock.readers = {}
             /\ (segments' # segments /\ cp' # cp) => lock.writer = "compactor"
             /\ (cp.pc = "compact" /\ cp' # cp) => "compactor" \in lock.readers
             /\ (cp.pc \in {"remove_first", "remove_second", "rename"} /\ cp' # cp) =>
                    lock.writer = "compactor"
             /\ (fg.pc = "flush_create" /\ fg' # fg) =>
                    /\ segments' = segments
                    /\ lock' = lock]_vars

\* A flush has written its segment file and waits with the append while the
\* compaction thread is inside the exclusive section.
C15_Witness ==
    /\ fg.pc = "flush_push"
    /\ segment_filename(fg.next_segment_id) \in DOMAIN dir
    /\ cp.pc = "rename"
    /\ lock.writer = "compactor"
    /\ lock.readers = {}

\* ------------------------------------------------------------- lookup order
\* What Engine::get is to return for a key: the memtable's record if it has
\* one; otherwise the record of the newest listed segment that has one;
\* otherwise None.
Resolved(key) ==
    IF key \in DOMAIN memtable THEN memtable[key]
    ELSE Flatten(lookup_newest_first(ListedFiles, Len(segments), key))

\* C16: a key the memtable holds is answered from the memtable, a value as
\* Some(value) and a tombstone as None, whatever the state of the segment list
\* and its lock; for every other key, whenever the read lock can be had, the
\* newest segment with an entry for the key decides (an assignment gives
\* Some(value), a tombstone None), and None is the answer when no segment has
\* one; this is so for either answer of the Bloom filters, and every get made
\* has returned that.
C16_GetResolutionOrder ==
    /\ \A key \in DOMAIN memtable, false_positives \in BloomOutcomes :
           Engine_get(memtable, dir, segments, lock, key, false_positives)
               = Ok(memtable[key])
    /\ ReaderCanHoldLock =>
           \A key \in Keys \ DOMAIN memtable, false_positives \in BloomOutcomes :
               Engine_get(memtable, dir, segments, lock, key, false_positives)
                   = Ok(Resolved(key))
    /\ (last.op = "get" /\ (last.key \in DOMAIN memtable \/ ReaderCanHoldLock)) =>
           last.ret = Ok(Resolved(last.key))

\* A get of a key the memtable does not know, with three segments: the
\* newest has no entry for the key, the second holds its tombstone, the
\* oldest an assignment; the get returned None.
C16_Witness ==
    /\ last.op = "get"
    /\ last.ret = Ok(None)
    /\ last.key \notin DOMAIN memtable
    /\ ReaderCanHoldLock
    /\ Len(segments) = 3
    /\ lookup(dir[segments[3]], last.key) = None
    /\ lookup(dir[segments[2]], last.key) = Some(None)
    /\ lookup(dir[segments[1]], last.key) \notin {None, Some(None)}

\* ------------------------------------------------------------- shutdown
\* Store::stop, first statement: compaction_kill_flag.swap(true).  stop takes
\* the engine by value, so it is called between calls and no call follows it.
StopSetFlag ==
    /\ fg.pc = "idle"
    /\ compaction_kill_flag' = TRUE
    /\ fg' = [Idle EXCEPT !.pc = "stop_join"]
    /\ UNCHANGED <<dir, segments, lock, memtable, capacity, cp, map, deleted, last, ops, crashes>>

\* Store::stop_join without handle.join(): stop returns at once.
StopJoin_without_join ==
    /\ fg.pc = "stop_join"
    /\ fg' = [Idle EXCEPT !.pc = "stopped"]
    /\ last' = [NoCall EXCEPT !.op = "stop",
                              !.ret = IF cp.pc = "panicked" THEN Err("Join") ELSE Ok(None)]
    /\ UNCHANGED <<dir, segments, lock, memtable, capacity, compaction_kill_flag, cp, map, deleted, ops,
                   crashes>>

\* Store::stop: handle.join() returns once the compaction thread has ended
\* (with an error if it panicked); without a join handle there is no wait.
StopJoin ==
    /\ fg.pc = "stop_join"
    /\ cp.pc \in {"exited", "panicked", "disabled"}
    /\ fg' = [Idle EXCEPT !.pc = "stopped"]
    /\ last' = [NoCall EXCEPT !.op = "stop",
                              !.ret = IF cp.pc = "panicked" THEN Err("Join") ELSE Ok(None)]
    /\ UNCHANGED <<dir, segments, lock, memtable, capacity, compaction_kill_flag, cp, map, deleted, ops,
                   crashes>>

\* The kill flag examined before every statement of the loop body: the
\* thread returns from wherever it is, and its guards are dropped.
CompExit_from_anywhere ==
    /\ cp.pc \in {"loop", "compact", "drop_read", "lock_write", "remove_first", "remove_second",
                  "rename"}
    /\ compaction_kill_flag
    /\ cp' = CompactorAt("exited")
    /\ lock' = [lock EXCEPT !.readers = @ \ {"compactor"},
                            !.writer = IF @ = "compactor" THEN "none" ELSE @]
    /\ UNCHANGED <<dir, segments, memtable, capacity, compaction_kill_flag, fg, map, deleted, last, ops,
                   crashes>>

\* compaction_loop: the `while !compaction_kill_flag.load(..)` test finds the
\* flag set and the function returns.
CompExit ==
    /\ cp.pc = "loop"
    /\ compaction_kill_flag
    /\ cp' = CompactorAt("exited")
    /\ UNCHANGED <<dir, segments, lock, memtable, capacity, compaction_kill_flag, fg, map, deleted, last, ops,
                   crashes>>

\* The steps of the compaction thread.
CompactionThread ==
    \/ CompTick
    \/ CompCompact
    \/ CompDropRead
    \/ CompLockWrite
    \/ CompRemoveFirst
    \/ CompRemoveSecond
    \/ CompSwap
    \/ CompExit

\* The engine with its compaction thread and a final Engine::stop.  Both
\* threads are scheduled: a step of the compaction thread that stays possible
\* is taken, and so is the return of the join.
NextStop ==
    \/ SetCall
    \/ DeleteCall
    \/ GetCall
    \/ FlushReadId
    \/ FlushCreate
    \/ FlushPush
    \/ FlushFinish
    \/ CompTick
    \/ CompCompact
    \/ CompDropRead
    \/ CompLockWrite
    \/ CompRemoveFirst
    \/ CompRemoveSecond
    \/ CompSwap
    \/ CompExit
    \/ StopSetFlag
    \/ StopJoin

SpecStop == Init /\ [][NextStop]_vars /\ WF_vars(CompactionThread) /\ WF_vars(StopJoin)

\* C17: once stop has set the kill flag the compaction thread leaves its loop,
\* wherever it was; stop has returned only when the thread has ended; and
\* after stop has returned no file and no list entry changes.
C17_StopEndsCompaction ==
    /\ compaction_kill_flag ~> cp.pc = "exited"
    /\ [](fg.pc = "stopped" => cp.pc = "exited")
    /\ [][fg.pc = "stopped" => (dir' = dir /\ segments' = segments)]_vars

\* stop has set the flag and waits in the join while the compaction thread is
\* in the middle of a swap.
C17_Witness ==
    /\ fg.pc = "stop_join"
    /\ compaction_kill_flag
    /\ cp.pc = "remove_second"
    /\ lock.writer = "compactor"

\* ------------------------------------------------------------- failed compaction
\* C19: a step of the compaction thread that fails (a segment file that cannot
\* be opened, a new-segment.dat that is already there, a remove or rename
\* that fails) does not end the thread: it is never in the state a panic
\* leaves it in, from which no tick follows.
C19_FailedStepKeepsCompactorRunning ==
    cp.pc # "panicked"

\* ------------------------------------------------------------- malformed files
\* Files whose last bytes are not a whole entry.  A tail is nothing, a byte
\* that is no indicator (alone or followed by a whole entry), or an entry cut
\* short by the end of the file at any of its bytes.
Cut(bytes) == {SubSeq(bytes, 1, n) : n \in 1..(Len(bytes) - 1)}
Tails ==
    {<< >>, <<2>>, <<2>> \o tombstone(<< >>, <<98>>)}
        \cup Cut(write(<< >>, <<97, 98>>, <<49>>))
        \cup Cut(tombstone(<< >>, <<98>>))
FilesWithTail == {file \o tail : file \in FlushedFiles \cup {<< >>}, tail \in Tails}

\* Engine::with_args, with compaction disabled, on a directory that holds a
\* WAL and one segment, either of which may end in a tail: the state after
\* Store::new and replay_wal.
InitMalformed ==
    \E wal \in FilesWithTail, segment \in FilesWithTail :
        /\ wal \in FlushedFiles \/ segment \in FlushedFiles
        /\ dir = Put(Put(<< >>, wal_path, wal), segment_filename(1), segment)
        /\ segments = <<segment_filename(1)>>
        /\ lock = Unlocked
        /\ memtable = replay_wal(wal, EmptyTree)
        /\ capacity = MaxCapacity
        /\ compaction_kill_flag = FALSE
        /\ fg = IF EntryIter_end(wal) = "panic" THEN [Idle EXCEPT !.pc = "panicked"] ELSE Idle
        /\ cp = CompactorAt("disabled")
        /\ map = [k \in Keys |-> None]
        /\ deleted = {}
        /\ last = [NoCall EXCEPT !.op = "restart",
                                 !.ret = IF EntryIter_end(wal) = "panic" THEN Panicked ELSE Ok(None)]
        /\ ops = 0
        /\ crashes = 0

NextMalformed ==
    \/ GetCall
    \/ CrashRestart

SpecMalformed == InitMalformed /\ [][NextMalformed]_vars

Malformed(file) == EntryIter_end(file) # "eof"
NewestSegment == dir[segments[Len(segments)]]

\* C20: a WAL or a segment that holds an unknown indicator byte or an entry
\* cut short by the end of the file makes the call that reads it return a
\* Malformed error: the replay of the WAL when the engine starts, and a get
\* of a key the memtable does not know, which opens the newest segment.
C20_MalformedFileIsReported ==
    /\ (last.op = "restart" /\ Malformed(dir[wal_path])) => last.ret = Err("Malformed")
    /\ (/\ last.op = "get"
        /\ Memtable_get(memtable, last.key) = None
        /\ Malformed(NewestSegment)) => last.ret = Err("Malformed")

\* The malformed tail is never taken for a normal end of the file: no call
\* that read a file with such a tail returned Ok.
C20_MalformedTailIsNotEndOfFile ==
    /\ (last.op = "restart" /\ Malformed(dir[wal_path])) => last.ret.tag # "Ok"
    /\ (/\ last.op = "get"
        /\ Memtable_get(memtable, last.key) = None
        /\ Malformed(NewestSegment)) => last.ret.tag # "Ok"

\* ------------------------------------------------------------- over-long input
\* A key and a value one byte longer than a length prefix can say.
LongKey == [i \in 1..(MaxLen + 1) |-> 97]
LongValue == [i \in 1..(MaxLen + 1) |-> 49]

\* The engine without a compaction thread, called with keys and values of
\* every length, the over-long ones included.
SetAnyCall == \E key \in Keys \cup {LongKey}, value \in Values \cup {LongValue} : Set(key, value)
DeleteAnyCall == \E key \in Keys \cup {LongKey} : Delete(key)

NextTooLarge ==
    \/ SetAnyCall
    \/ DeleteAnyCall
    \/ GetCall
    \/ FlushReadId
    \/ FlushCreate
    \/ FlushPush
    \/ FlushFinish

SpecTooLarge == InitNoCompaction /\ [][NextTooLarge]_vars

CallStep == ops' = ops + 1
OverLong(call) == Len(call.key) > MaxLen \/ Len(call.value) > MaxLen

\* C21: a set whose key or value, or a delete whose key, is longer than the
\* largest encodable length returns TooLarge and changes nothing: the
\* directory (so the WAL) and the memtable are as before, the segment list
\* is as before, and the engine does not start a flush.
C21_TooLargeMutatesNothing ==
    [][(CallStep /\ OverLong(last')) =>
          /\ last'.ret = Err("TooLarge")
          /\ dir' = dir
          /\ memtable' = memtable
          /\ segments' = segments
          /\ fg' = fg /\ fg.pc = "idle"]_vars

\* A set with an over-long value returned TooLarge while the WAL holds
\* earlier entries and the memtable an earlier key.
C21_Witness ==
    /\ last.op = "set"
    /\ last.value = LongValue
    /\ last.key \in Keys
    /\ last.ret = Err("TooLarge")
    /\ memtable # EmptyTree
    /\ dir[wal_path] # << >>

\* A delete with an over-long key returned TooLarge.
C21_WitnessDelete ==
    /\ last.op = "delete"
    /\ last.key = LongKey
    /\ last.ret = Err("TooLarge")

\* ------------------------------------------------------------- poisoned lock
\* fs::remove_file or fs::rename of the swap returns an error of the file
\* system: the expect panics while the write guard is held, which poisons the
\* lock.
CompSwapIoError ==
    /\ cp.pc \in {"remove_first", "remove_second", "rename"}
    /\ cp' = CompactorAt("panicked")
    /\ lock' = PanicUnlock(lock)
    /\ UNCHANGED <<dir, segments, memtable, capacity, compaction_kill_flag, fg, map, deleted, last, ops,
                   crashes>>

NextPoison ==
    \/ Next
    \/ CompSwapIoError

SpecPoison == Init /\ [][NextPoison]_vars

GetStep == last' # last /\ last'.op = "get"
FlushLockStep == fg.pc \in {"flush_read", "flush_push"} /\ fg' # fg

\* C22: once the lock of the segment list is poisoned, a get of a key the
\* memtable does not know returns the Poison error, and a flush that comes
\* to read the last id or to push the new segment returns the Poison error
\* to the caller of the set; neither panics or returns a value.
C22_PoisonedLockIsReported ==
    [][/\ (GetStep /\ lock.poisoned /\ Memtable_get(memtable, last'.key) = None) =>
              (last'.ret = Err("Poison") /\ fg' = fg)
       /\ (FlushLockStep /\ lock.poisoned) =>
              (last'.ret = Err("Poison") /\ fg' = Idle /\ segments' = segments)]_vars

\* A get returned the Poison error after the compaction thread panicked
\* under the write lock.
C22_Witness ==
    /\ last.op = "get"
    /\ last.ret = Err("Poison")
    /\ lock.poisoned
    /\ cp.pc = "panicked"

\* A set whose flush met the poisoned lock returned the Poison error.
C22_WitnessFlush ==
    /\ last.op = "set"
    /\ last.ret = Err("Poison")
    /\ lock.poisoned

\* ------------------------------------------------------------- new-segment.dat
\* C23: new-segment.dat is in the directory only while the compaction thread
\* is inside a step, between the compact that creates it and the rename that
\* ends the step: when the thread is at the top of its loop, has exited or
\* does not exist, and when the engine has just started, the file is not
\* there.
C23_NewSegmentOnlyDuringStep ==
    new_segment_path \in DOMAIN dir =>
        cp.pc \in {"drop_read", "lock_write", "remove_first", "remove_second", "rename"}

\* compact never meets a new-segment.dat that is already there.
C23_CompactCreatesNewSegment ==
    cp.pc = "compact" => new_segment_path \notin DOMAIN dir

\* ------------------------------------------------------------- sparse index law
\* A SparseIndex on its own: it starts empty (SparseIndex::new), keys are
\* inserted with offsets, and get_byte_range is called with keys that are
\* indexed, that lie between indexed keys, below them all and above them all.
\* `last` holds the index and the call made on it last.
IndexKeys == {<<97, 98>>, <<98>>, <<98, 97>>, <<99>>}
ProbeKeys == IndexKeys \cup {<<97>>, <<97, 99>>, <<100>>}
Offsets == {0, 14, 33}
IndexCall(op, key, index, ret) == [op |-> op, key |-> key, index |-> index, ret |-> ret]

InitIndex ==
    /\ dir = << >>
    /\ segments = << >>
    /\ lock = Unlocked
    /\ memtable = EmptyTree
    /\ capacity = MaxCapacity
    /\ compaction_kill_flag = FALSE
    /\ fg = Idle
    /\ cp = CompactorAt("disabled")
    /\ map = [k \in Keys |-> None]
    /\ deleted = {}
    /\ last = IndexCall("new", << >>, << >>, None)
    /\ ops = 0
    /\ crashes = 0

IndexInsert ==
    /\ \E key \in IndexKeys, offset \in Offsets :
          last' = IndexCall("insert", key, SparseIndex_insert(last.index, key, offset), None)
    /\ UNCHANGED <<dir, segments, lock, memtable, capacity, compaction_kill_flag, fg, cp, map,
                   deleted, ops, crashes>>

IndexGetByteRange ==
    /\ \E key \in ProbeKeys :
          last' = IndexCall("get_byte_range", key, last.index, get_byte_range(last.index, key))
    /\ UNCHANGED <<dir, segments, lock, memtable, capacity, compaction_kill_flag, fg, cp, map,
                   deleted, ops, crashes>>

NextIndex ==
    \/ IndexInsert
    \/ IndexGetByteRange

SpecIndex == InitIndex /\ [][NextIndex]_vars

\* C24: get_byte_range(key) returns as start the offset of the greatest
\* indexed key that is not above the key, None when there is none, and as end
\* the offset of the least indexed key strictly above the key, None when
\* there is none; both are None on an empty index, and an indexed key equal
\* to the key gives the start.
C24_GetByteRange ==
    last.op = "get_byte_range" =>
        LET index  == last.index
            key    == last.key
            start  == last.ret[1]
            end    == last.ret[2]
            AtMost == {k \in DOMAIN index : ~StrLess(key, k)}
            Above  == {k \in DOMAIN index : StrLess(key, k)}
        IN  /\ AtMost = {} => start = None
            /\ AtMost # {} =>
                   \E k \in AtMost : /\ \A o \in AtMost : ~StrLess(k, o)
                                     /\ start = Some(index[k])
            /\ Above = {} => end = None
            /\ Above # {} =>
                   \E k \in Above : /\ \A o \in Above : ~StrLess(o, k)
                                    /\ end = Some(index[k])
            /\ DOMAIN index = {} => (start = None /\ end = None)
            /\ key \in DOMAIN index => start = Some(index[key])

\* The call with a key that is indexed, between a smaller and a greater
\* indexed key with other offsets: start is its own offset, end the next.
C24_Witness ==
    /\ last.op = "get_byte_range"
    /\ last.key = <<98>>
    /\ DOMAIN last.index = {<<97, 98>>, <<98>>, <<99>>}
    /\ last.index[<<97, 98>>] = 0
    /\ last.ret = <<Some(14), Some(33)>>

\* ------------------------------------------------------------- segment lookup law
\* Segments long enough for a sparse index of three keys: the keys are any
\* subset of nine, in ascending order, all assignments, all tombstones, or
\* assignments for the keys of one byte and tombstones for the others.
SegmentKeys ==
    {<<97>>, <<97, 97>>, <<97, 98>>, <<98>>, <<98, 97>>, <<99>>, <<99, 97>>, <<100>>, <<101>>}
SegmentTrees ==
    UNION {{[k \in ks |-> Some(<<49>>)],
            [k \in ks |-> None],
            [k \in ks |-> IF Len(k) = 1 THEN Some(<<50, 50>>) ELSE None]} : ks \in SUBSET SegmentKeys}

\* A store that holds one segment, as write_memtable writes it.
InitSegment ==
    /\ \E tree \in SegmentTrees :
          dir = Put(Put(<< >>, wal_path, << >>), segment_filename(1), FlushedFile(tree))
    /\ segments = <<segment_filename(1)>>
    /\ lock = Unlocked
    /\ memtable = EmptyTree
    /\ capacity = MaxCapacity
    /\ compaction_kill_flag = FALSE
    /\ fg = Idle
    /\ cp = CompactorAt("disabled")
    /\ map = [k \in Keys |-> None]
    /\ deleted = {}
    /\ last = NoCall
    /\ ops = 0
    /\ crashes = 0

\* Segment::open and Segment::get on the segment, with either answer of the
\* Bloom filter for a key that was never inserted.
SegmentGet ==
    /\ \E key \in SegmentKeys \cup {<<98, 98>>}, false_positive \in BOOLEAN :
          last' = [NoCall EXCEPT !.op = "segment_get", !.key = key,
                                 !.ret = Segment_get(dir[segments[1]], key, false_positive)]
    /\ UNCHANGED <<dir, segments, lock, memtable, capacity, compaction_kill_flag, fg, cp, map,
                   deleted, ops, crashes>>

NextSegment == SegmentGet

SpecSegment == InitSegment /\ [][NextSegment]_vars

\* The byte offset at which the entry of the key starts, counted over the
\* entries of the file.
OffsetOf(entries, key) ==
    LET before[i \in 1..Len(entries)] ==
            IF i = 1 THEN 0
            ELSE before[i - 1] + Len(Entry_write(<< >>, entries[i - 1]))
    IN  before[CHOOSE i \in 1..Len(entries) : entries[i].key = key]

\* C25: on a segment with strictly ascending keys, Segment::get answers as a
\* scan of the whole file does: Some(Some(v)) for an assignment of the key,
\* Some(None) for its tombstone, None when the key is not there; the range
\* of the sparse index holds the offset of the key's entry when the key is
\* in the segment; and an answer is always that of an entry with the key.
C25_SegmentGetIsLinearScan ==
    last.op = "segment_get" =>
        LET file    == dir[segments[1]]
            entries == from_start(file)
            held    == {entries[i].key : i \in 1..Len(entries)}
            range   == get_byte_range(create_data_structures_for_segment(file).sparse_index,
                                      last.key)
        IN  /\ last.ret = lookup(file, last.key)
            /\ last.key \in held =>
                   /\ last.ret # None
                   /\ range[1] # None /\ range[1][1] <= OffsetOf(entries, last.key)
                   /\ range[2] # None => OffsetOf(entries, last.key) < range[2][1]
            /\ last.key \notin held => last.ret = None

\* A tombstone found in the range between the second and the third indexed
\* key of a segment with nine entries.
C25_Witness ==
    /\ last.op = "segment_get"
    /\ last.key = <<99, 97>>
    /\ last.ret = Some(None)
    /\ Len(from_start(dir[segments[1]])) = 9
    /\ get_byte_range(create_data_structures_for_segment(dir[segments[1]]).sparse_index,
                      last.key)[1] \notin {None, Some(0)}
    /\ get_byte_range(create_data_structures_for_segment(dir[segments[1]]).sparse_index,
                      last.key)[2] # None

\* ------------------------------------------------------------- compactor frame
CompactorStep == cp' # cp /\ ~RestartStep
OtherFiles(d) == {path \in DOMAIN d : ~is_segment_filename(path) /\ path # new_segment_path}

\* C26: a step of the compaction thread leaves the memtable and the WAL as
\* they are: the files it creates, removes or renames are segment files and
\* new-segment.dat, and besides them it changes only the segment list and
\* its lock.
C26_CompactorLeavesMemtableAndWal ==
    [][CompactorStep =>
          /\ memtable' = memtable
          /\ capacity' = capacity
          /\ wal_path \in DOMAIN dir /\ wal_path \in DOMAIN dir'
          /\ dir'[wal_path] = dir[wal_path]
          /\ OtherFiles(dir') = OtherFiles(dir)
          /\ \A path \in OtherFiles(dir) : dir'[path] = dir[path]
          /\ fg' = fg]_vars

\* The swap has ended while the memtable and the WAL hold a write made after
\* the last flush.
C26_Witness ==
    /\ cp.pc = "loop"
    /\ Len(segments) = 1
    /\ segment_filename(2) \in DOMAIN dir
    /\ memtable # EmptyTree
    /\ dir[wal_path] # << >>

\* ------------------------------------------------------------- listed segments
FlushStep == fg.pc \in {"flush_read", "flush_create", "flush_push", "flush_wal"} /\ fg' # fg /\ ~RestartStep
EngineStep == (fg' # fg \/ last' # last \/ ops' # ops) /\ ~RestartStep

\* C27: a file whose path is in the segment list keeps its bytes on every
\* step but the swap of a compaction step, which puts the merged file at the
\* path of the second segment; a flush creates its file at a path that is
\* not in the list, and no step of the engine thread removes or rewrites a
\* file of the list: files are removed by the compaction thread only.
C27_ListedSegmentsAreImmutable ==
    [][/\ (~RestartStep /\ ~CompactorStep) =>
              \A path \in SegmentSet :
                  path \in DOMAIN dir => (path \in DOMAIN dir' /\ dir'[path] = dir[path])
       /\ (CompactorStep /\ ~(cp.pc \in {"remove_first", "remove_second", "rename"})) =>
              \A path \in SegmentSet :
                  path \in DOMAIN dir => (path \in DOMAIN dir' /\ dir'[path] = dir[path])
       /\ (fg.pc = "flush_create" /\ fg'.pc = "flush_push") =>
              segment_filename(fg.next_segment_id) \notin SegmentSet
       /\ EngineStep => \A path \in SegmentFiles : path \in DOMAIN dir']_vars

\* A flush wrote its segment while two older segments were listed and the
\* compaction thread had merged them.
C27_Witness ==
    /\ fg.pc = "flush_push"
    /\ Len(segments) = 2
    /\ cp.pc \in {"drop_read", "lock_write"}
    /\ segment_filename(fg.next_segment_id) \in DOMAIN dir

\* ------------------------------------------------------------- WAL and memtable
\* C28: between the calls of the engine thread (after the replay of a start,
\* after a set, a delete and a flush have returned) the WAL replayed in file
\* order into an empty memtable gives the memtable as it is: the same keys
\* with the same values and tombstones.
C28_WalReplaysToMemtable ==
    fg.pc = "idle" =>
        /\ wal_path \in DOMAIN dir
        /\ replay_wal(dir[wal_path], EmptyTree) = memtable

\* After a restart and a later delete, the WAL holds two entries or more of
\* the same key, the last a tombstone, and the memtable the tombstone.
C28_Witness ==
    /\ fg.pc = "idle"
    /\ crashes = 1
    /\ last.op = "delete"
    /\ Len(from_start(dir[wal_path])) >= 2
    /\ from_start(dir[wal_path])[1].key = last.key
    /\ from_start(dir[wal_path])[1].type = "Assignment"
    /\ memtable[last.key] = None

\* ------------------------------------------------------------- TCP front-end
\* One connection between the client (kv-client, Stream::get) and the server
\* (kv, handle_client) over an engine whose memtable holds some of the keys.
\* `last` holds the connection: the bytes sent and not yet read in each
\* direction, where the client is in its call, and what the call returned.
\* One stored value is short; the other begins with four bytes that read as
\* a length.  The engine has no segments, so its get cannot fail, and its
\* capacity is one the memtable has not reached.
TcpValues == {<<49>>, <<0, 0, 0, 0, 65>>}
TcpTrees == UNION {[ks -> {None} \cup {Some(v) : v \in TcpValues}] : ks \in SUBSET Keys}
Connection(pc, key, ret, to_server, to_client) ==
    [op |-> "tcp_get", pc |-> pc, key |-> key, ret |-> ret,
     to_server |-> to_server, to_client |-> to_client]

InitTcp ==
    /\ \E tree \in TcpTrees :
          /\ memtable = tree
          /\ dir = Put(<< >>, wal_path, WriteEntries(tree, Memtable_iter(tree), 1, << >>))
    /\ segments = << >>
    /\ lock = Unlocked
    /\ capacity = Cardinality(Keys) + 1
    /\ compaction_kill_flag = FALSE
    /\ fg = Idle
    /\ cp = CompactorAt("disabled")
    /\ map = [k \in Keys |-> None]
    /\ deleted = {}
    /\ last = Connection("idle", << >>, Ok(None), << >>, << >>)
    /\ ops = 0
    /\ crashes = 0

\* Stream::get up to read_outcome: write_indicator(Command::Get) and
\* write_data(key).
ClientSendGet ==
    /\ last.pc \in {"idle", "done"}
    /\ ops < MaxOps
    /\ \E key \in Keys :
          last' = Connection("read_outcome", key, Ok(None),
                             last.to_server \o <<1>> \o to_be_bytes(Len(key)) \o key,
                             last.to_client)
    /\ ops' = ops + 1
    /\ UNCHANGED <<dir, segments, lock, memtable, capacity, compaction_kill_flag, fg, cp, map,
                   deleted, crashes>>

\* handle_client, one pass of its loop on a Get: the indicator, the length
\* and the key are read, Engine::get is called, and the answer is written:
\* byte 1 and the bytes of the value, or byte 0.
ServerHandleGet ==
    /\ Len(last.to_server) >= 5
    /\ last.to_server[1] = 1
    /\ LET key_size == from_be_bytes(SubSeq(last.to_server, 2, 5))
           key      == SubSeq(last.to_server, 6, 5 + key_size)
           rest     == SubSeq(last.to_server, 6 + key_size, Len(last.to_server))
           value    == Engine_get(memtable, dir, segments, lock, key, {})
       IN  /\ Len(last.to_server) >= 5 + key_size
           /\ value.tag = "Ok"
           /\ last' = [last EXCEPT
                          !.to_server = rest,
                          !.to_client = IF value.val # None
                                        THEN @ \o <<1>> \o value.val[1]
                                        ELSE @ \o <<0>>]
    /\ UNCHANGED <<dir, segments, lock, memtable, capacity, compaction_kill_flag, fg, cp, map,
                   deleted, ops, crashes>>

\* Stream::get, read_outcome and the match on it: 1 goes on to read_data,
\* 2 returns Ok(None), any other byte returns the error.
ClientReadOutcome ==
    /\ last.pc = "read_outcome"
    /\ Len(last.to_client) >= 1
    /\ LET outcome == last.to_client[1]
       IN  last' = [last EXCEPT
                       !.to_client = Tail(@),
                       !.pc = IF outcome = 1 THEN "read_data" ELSE "done",
                       !.ret = IF outcome = 1 THEN @
                               ELSE IF outcome = 2 THEN Ok(None)
                               ELSE Err("operation failed")]
    /\ UNCHANGED <<dir, segments, lock, memtable, capacity, compaction_kill_flag, fg, cp, map,
                   deleted, ops, crashes>>

\* Stream::read_data of the client: four bytes of length, then as many
\* bytes of data; each read_exact waits until its bytes are there.
ClientReadData ==
    /\ last.pc = "read_data"
    /\ Len(last.to_client) >= 4
    /\ LET size == from_be_bytes(SubSeq(last.to_client, 1, 4))
       IN  /\ Len(last.to_client) >= 4 + size
           /\ last' = [last EXCEPT
                          !.to_client = SubSeq(@, 5 + size, Len(@)),
                          !.pc = "done",
                          !.ret = Ok(Some(SubSeq(last.to_client, 5, 4 + size)))]
    /\ UNCHANGED <<dir, segments, lock, memtable, capacity, compaction_kill_flag, fg, cp, map,
                   deleted, ops, crashes>>

NextTcp ==
    \/ ClientSendGet
    \/ ServerHandleGet
    \/ ClientReadOutcome
    \/ ClientReadData

SpecTcp == InitTcp /\ [][NextTcp]_vars

Stored(key) == Engine_get(memtable, dir, segments, lock, key, {}).val
Answered == last.pc = "read_outcome" /\ last.to_server = << >> /\ last.to_client # << >>

\* C29: a Get of a key the engine holds no value for is answered with the
\* byte 2, not with the failure byte 0, and the client's call returns
\* Ok(None), not an error.
C29_MissingKeyIsNotFound ==
    /\ (Answered /\ Stored(last.key) = None) => last.to_client[Len(last.to_client)] = 2
    /\ (last.pc = "done" /\ Stored(last.key) = None) => last.ret = Ok(None)

\* C30: a Get of a key the engine holds a value for is answered with the
\* byte 1, the length of the value as four big-endian bytes and the value;
\* the client's call returns that value, and when it has returned nothing of
\* the answer is left on the connection.
C30_FoundValueIsLengthPrefixed ==
    /\ (Answered /\ ops = 1 /\ Stored(last.key) # None) =>
           last.to_client = <<1>> \o to_be_bytes(Len(Stored(last.key)[1])) \o Stored(last.key)[1]
    /\ (last.pc = "done" /\ Stored(last.key) # None) =>
           (last.ret = Ok(Stored(last.key)) /\ last.to_client = << >>)

\* The client waits in read_data for bytes that are never sent.
C30_ClientWaitsForLength ==
    ~(last.pc = "read_data" /\ last.to_server = << >> /\ Len(last.to_client) < 4)

\* ------------------------------------------------------------- replay at start
\* What the entries of the WAL say, read in file order: for every key the
\* last entry of the key, a value for an assignment and None for a tombstone.
WalSays ==
    LET entries == from_start(dir[wal_path])
        lastOf(key) == CHOOSE i \in 1..Len(entries) :
                           /\ entries[i].key = key
                           /\ \A j \in (i + 1)..Len(entries) : entries[j].key # key
    IN  [key \in {entries[i].key : i \in 1..Len(entries)} |->
            IF entries[lastOf(key)].type = "Assignment"
            THEN Some(entries[lastOf(key)].value)
            ELSE None]

\* C31: a start of the engine replays the WAL once, before it takes a call:
\* the memtable it starts with is what the entries of the WAL say in file
\* order, later entries of a key overriding earlier ones; the start leaves
\* the bytes of the WAL and of every segment file as they are, and the list
\* it works with names the segment files of the directory; and no call has
\* been made in the step.  No other step than a call or the end of a flush
\* changes the memtable.
C31_ReplayAtStart ==
    [][/\ RestartStep =>
              /\ wal_path \in DOMAIN dir
              /\ memtable' = WalSays
              /\ dir' = dir
              /\ {segments'[i] : i \in 1..Len(segments')} = SegmentFiles
              /\ ops' = ops
              /\ fg'.pc = "idle"
       /\ (~RestartStep /\ memtable' # memtable) => (CallStep \/ FlushReturnStep)]_vars

\* The engine has just started on a WAL that holds an assignment of a key
\* and then its tombstone: the memtable holds the tombstone.
C31_Witness ==
    /\ last.op = "restart"
    /\ Len(from_start(dir[wal_path])) >= 2
    /\ from_start(dir[wal_path])[1].type = "Assignment"
    /\ from_start(dir[wal_path])[2] = Tombstone(from_start(dir[wal_path])[1].key)
    /\ memtable[from_start(dir[wal_path])[1].key] = None
    /\ segments # << >>

\* ------------------------------------------------------------- reads during a merge
\* The compaction thread is in its merge pass: it holds the shared lock, the
\* two segments are open, and new-segment.dat is being or has been written.
MergePass == cp.pc \in {"compact", "drop_read"}
ExclusiveSection == cp.pc \in {"remove_first", "remove_second", "rename"}

\* C32: during the merge pass of the compaction thread a get of the engine
\* thread is not held up.  The compaction thread holds the lock shared and
\* nobody holds it for writing, which is all that the read lock of a get
\* waits for, and a get of a key the memtable does not know returns what the
\* list, with both segments still as they were, answers.  The lock is held
\* for writing, which makes such a get wait, exactly while the compaction
\* thread is in its exclusive section.
C32_GetRunsDuringMerge ==
    /\ MergePass => ("compactor" \in lock.readers /\ ReaderCanHoldLock)
    /\ (MergePass /\ fg.pc = "idle") =>
           \A key \in Keys \ DOMAIN memtable, false_positives \in BloomOutcomes :
               Engine_get(memtable, dir, segments, lock, key, false_positives)
                   = Ok(Resolved(key))
    /\ ExclusiveSection <=> lock.writer = "compactor"

\* A get of a key that only the two segments under merge hold has returned
\* its value while the compaction thread holds the shared lock.
C32_Witness ==
    /\ cp.pc = "compact"
    /\ "compactor" \in lock.readers
    /\ last.op = "get"
    /\ last.key \notin DOMAIN memtable
    /\ Len(segments) = 2
    /\ lookup(dir[segments[1]], last.key) # None
    /\ last.ret = Ok(Flatten(lookup(dir[segments[2]], last.key)))
    /\ last.ret # Ok(None)

\* ------------------------------------------------------------- skipped tick
\* The compaction thread is at the top of its loop and the list holds fewer
\* than two segments: its next tick finds nothing to do.
TickFindsNothing == cp.pc = "loop" /\ Len(segments) < 2

\* C33: a tick of the compaction thread that finds fewer than two segments
\* in the list has no effect.  From a state in which the thread is at the top
\* of its loop and the list holds fewer than two segments the thread stays
\* where it is, and a step that is not a step of the engine thread creates,
\* removes and renames no file, leaves the segment list as it is and leaves
\* the lock as it is.
C33_TickBelowTwoSegmentsIsSkipped ==
    [][(TickFindsNothing /\ ~RestartStep) =>
           /\ cp' = cp
           /\ ~EngineStep => UNCHANGED <<dir, segments, lock>>]_vars

\* The tick can run, and finds one segment in the list: a flush has pushed
\* it, and the compaction thread is at the top of its loop with the lock free.
C33_Witness ==
    /\ TickFindsNothing
    /\ Len(segments) = 1
    /\ segments[1] \in DOMAIN dir
    /\ ~compaction_kill_flag
    /\ lock.writer = "none" /\ ~lock.poisoned
    /\ ENABLED CompTick
    /\ new_segment_path \notin DOMAIN dir

\* ------------------------------------------------------------- structures of a segment
\* The positions (counted from 0) of the entries that join the sparse index.
IndexedPositions(entries) ==
    {i \in 0..(Len(entries) - 1) : i % SPARSE_INDEX_RANGE_SIZE = 0}

\* C34: the Bloom filter and the sparse index of an opened segment are those
\* of its entries: the Bloom filter holds the key of every entry of the file
\* and no other, so a key of the segment is never answered "absent"; the
\* sparse index holds the keys of the entries at positions 0, 4, 8, ... and
\* no other, each with the byte offset at which its entry starts in the file.
C34_StructuresOfSegment ==
    last.op = "segment_get" =>
        LET file    == dir[segments[1]]
            entries == from_start(file)
            ds      == create_data_structures_for_segment(file)
        IN  /\ ds.bloom_filter = {entries[i].key : i \in 1..Len(entries)}
            /\ DOMAIN ds.sparse_index = {entries[i + 1].key : i \in IndexedPositions(entries)}
            /\ \A i \in IndexedPositions(entries) :
                   /\ ds.sparse_index[entries[i + 1].key] = OffsetOf(entries, entries[i + 1].key)
                   /\ EntryIter_next(file, ds.sparse_index[entries[i + 1].key]).kind = "entry"
                   /\ EntryIter_next(file, ds.sparse_index[entries[i + 1].key]).entry
                          = entries[i + 1]
            /\ last.key \in {entries[i].key : i \in 1..Len(entries)} =>
                   Segment_get(file, last.key, FALSE) # None

\* A segment of nine entries, assignments and tombstones, has been opened:
\* its sparse index holds the first, the fifth and the ninth key, the fifth
\* at an offset past the start of the file.
C34_Witness ==
    /\ last.op = "segment_get"
    /\ Len(from_start(dir[segments[1]])) = 9
    /\ from_start(dir[segments[1]])[1].type = "Assignment"
    /\ from_start(dir[segments[1]])[2].type = "Tombstone"
    /\ DOMAIN create_data_structures_for_segment(dir[segments[1]]).sparse_index
           = {<<97>>, <<98, 97>>, <<101>>}
    /\ create_data_structures_for_segment(dir[segments[1]]).sparse_index[<<98, 97>>] > 0
    /\ last.key \in create_data_structures_for_segment(dir[segments[1]]).bloom_filter

\* ------------------------------------------------------------- codec round trip
\* Entries written to one file and read back.  The keys and values include
\* the empty string and bytes equal to the two indicators.
CodecKeys == {<< >>, <<1>>}
CodecValues == {<< >>, <<0, 1>>}
CodecEntries ==
    {Assignment(k, v) : k \in CodecKeys, v \in CodecValues} \cup {Tombstone(k) : k \in CodecKeys}

\* The entries written so far, the bytes of the file, and what the last
\* iteration over the file yielded and how it ended.
CodecCall(op, written, file, ret, end) ==
    [op |-> op, written |-> written, file |-> file, ret |-> ret, end |-> end]

\* An empty file.
InitCodec ==
    /\ dir = << >>
    /\ segments = << >>
    /\ lock = Unlocked
    /\ memtable = EmptyTree
    /\ capacity = MaxCapacity
    /\ compaction_kill_flag = FALSE
    /\ fg = Idle
    /\ cp = CompactorAt("disabled")
    /\ map = [k \in Keys |-> None]
    /\ deleted = {}
    /\ last = CodecCall("create", << >>, << >>, << >>, "eof")
    /\ ops = 0
    /\ crashes = 0

\* Entry::write of one entry at the end of the file.
CodecWrite ==
    /\ ops < MaxOps
    /\ \E entry \in CodecEntries :
          last' = CodecCall("write", Append(last.written, entry), Entry_write(last.file, entry),
                            last.ret, last.end)
    /\ ops' = ops + 1
    /\ UNCHANGED <<dir, segments, lock, memtable, capacity, compaction_kill_flag, fg, cp, map,
                   deleted, crashes>>

\* EntryIter::from_start on the file, iterated until it ends.
CodecIterate ==
    /\ last' = CodecCall("iterate", last.written, last.file, from_start(last.file),
                         EntryIter_end(last.file))
    /\ UNCHANGED <<dir, segments, lock, memtable, capacity, compaction_kill_flag, fg, cp, map,
                   deleted, ops, crashes>>

NextCodec ==
    \/ CodecWrite
    \/ CodecIterate

SpecCodec == InitCodec /\ [][NextCodec]_vars

\* The number of bytes of the encoding of an entry, as the format lays it
\* out: the indicator, the length of the key, the key, and for an assignment
\* the length of the value and the value.
EncodedLen(entry) ==
    IF entry.type = "Assignment" THEN 1 + 4 + Len(entry.key) + 4 + Len(entry.value)
    ELSE 1 + 4 + Len(entry.key)

\* C35: the entries written to an empty file with write and tombstone are
\* the entries EntryIter yields from the start of the file, in the same
\* order, and after them the iterator ends at the end of the file; the
\* stride of each entry is the number of bytes of its encoding, so the
\* strides of the entries add up, entry by entry, to the offset at which the
\* next entry starts.
C35_CodecRoundTrip ==
    last.op = "iterate" =>
        /\ last.ret = last.written
        /\ last.end = "eof"
        /\ \A i \in 1..Len(last.written) :
               LET entry == last.written[i]
               IN  /\ stride(entry) = Len(Entry_write(<< >>, entry))
                   /\ stride(entry) = EncodedLen(entry)
        /\ LET start[i \in 0..Len(last.written)] ==
                   IF i = 0 THEN 0 ELSE start[i - 1] + stride(last.written[i])
           IN  /\ start[Len(last.written)] = Len(last.file)
               /\ \A i \in 1..Len(last.written) :
                      /\ EntryIter_next(last.file, start[i - 1]).kind = "entry"
                      /\ EntryIter_next(last.file, start[i - 1]).entry = last.written[i]
                      /\ EntryIter_next(last.file, start[i - 1]).pos = start[i]

\* Four entries have been written and read back, among them an assignment
\* of the empty key, a value that holds the bytes of both indicators, and a
\* tombstone.
C35_Witness ==
    /\ last.op = "iterate"
    /\ Len(last.ret) = 4
    /\ last.ret[1] = Assignment(<< >>, <<0, 1>>)
    /\ last.ret[2] = Tombstone(<<1>>)
    /\ last.ret[3] = Assignment(<<1>>, << >>)
    /\ last.ret[4].type = "Tombstone"
    /\ Len(last.file) = 11 + 6 + 10 + stride(last.ret[4])

\* ------------------------------------------------------------- lock requests
\* The steps of a flush: Engine::flush_memtable runs inside the call that
\* filled the memtable, on the engine thread.
FlushMemtable ==
    \/ FlushReadId
    \/ FlushCreate
    \/ FlushPush
    \/ FlushFinish

\* The engine and its compaction thread, both scheduled: the compaction
\* thread wakes from its sleep and runs on, and the engine thread runs a
\* flush it has begun to its end.
SpecFair == Init /\ [][Next]_vars /\ WF_vars(CompactionThread) /\ WF_vars(FlushMemtable)

\* C36: the two threads never deadlock on the lock of the segment list.  A
\* thread that asks for the exclusive lock holds no shared guard: the
\* compaction thread has dropped its read guard, and the engine thread has
\* dropped the guard under which it read the last id.  The lock is never
\* held shared and exclusive at once.  Every request is granted in the end:
\* the compaction thread waiting for the exclusive lock enters its swap, the
\* flush waiting to read the last id reads it, the flush waiting to push its
\* path pushes it, and every exclusive hold of the lock ends, so that a
\* reader gets its turn.
C36_NoDeadlockOnSegmentsLock ==
    /\ [](/\ cp.pc = "lock_write" => "compactor" \notin lock.readers
          /\ fg.pc = "flush_push" => lock.readers \subseteq {"compactor"}
          /\ SharedXorExclusive
          /\ lock.writer # "none" => lock.writer = "compactor" /\ ExclusiveSection)
    /\ cp.pc = "lock_write" ~> cp.pc = "remove_first"
    /\ fg.pc = "flush_read" ~> fg.pc = "flush_create"
    /\ fg.pc = "flush_push" ~> fg.pc = "flush_wal"
    /\ lock.writer # "none" ~> lock.writer = "none"

\* The engine thread waits to push the path of a flushed segment while the
\* compaction thread holds the lock shared for its merge.
C36_Witness ==
    /\ fg.pc = "flush_push"
    /\ "compactor" \in lock.readers
    /\ cp.pc = "compact"
    /\ ~ENABLED FlushPush

\* Both threads have asked for the exclusive lock.
C36_WitnessBothAsk ==
    /\ fg.pc = "flush_push"
    /\ cp.pc = "lock_write"
    /\ lock = Unlocked

\* ------------------------------------------------------------- merge and swap
KeysOf(file) == {from_start(file)[i].key : i \in 1..Len(from_start(file))}

\* C37: between the merge pass and the swap the compaction thread holds no
\* lock and flushes may push paths to the list, yet the first two paths of
\* the list stay the two segments that were merged: from the end of the
\* merge to the first removal new-segment.dat is the merge of the files at
\* positions 0 and 1 as they are now, so every key of the segment that the
\* swap removes has its entry in the merged file; after the first removal
\* the segment at position 1 still has every one of its entries in the
\* merged file, and after the second only the merged file is left to be
\* renamed.
C37_SwapTakesTheMergedSegments ==
    /\ cp.pc \in {"drop_read", "lock_write", "remove_first"} =>
           /\ Len(segments) >= 2
           /\ segments[1] # segments[2]
           /\ {segments[1], segments[2], new_segment_path} \subseteq DOMAIN dir
           /\ dir[new_segment_path] = compact(dir[segments[1]], dir[segments[2]])
           /\ KeysOf(dir[new_segment_path])
                  = KeysOf(dir[segments[1]]) \cup KeysOf(dir[segments[2]])
    /\ cp.pc = "remove_second" =>
           /\ Len(segments) >= 2
           /\ segments[1] \notin DOMAIN dir
           /\ {segments[2], new_segment_path} \subseteq DOMAIN dir
           /\ \A i \in 1..Len(from_start(dir[segments[2]])) :
                  Holds(new_segment_path, from_start(dir[segments[2]])[i])
    /\ cp.pc = "rename" =>
           /\ Len(segments) >= 2
           /\ segments[1] \notin DOMAIN dir /\ segments[2] \notin DOMAIN dir
           /\ new_segment_path \in DOMAIN dir

\* The compaction thread has taken the exclusive lock for its swap while a
\* flush that pushed a third path has not returned yet; the merged file
\* holds a key of each of the two segments.
C37_Witness ==
    /\ cp.pc = "remove_first"
    /\ fg.pc = "flush_wal"
    /\ Len(segments) = 3
    /\ KeysOf(dir[segments[1]]) # KeysOf(dir[segments[2]])
    /\ dir[new_segment_path] = compact(dir[segments[1]], dir[segments[2]])

\* ------------------------------------------------------------- listed files
\* A segment file written to its end: it holds at least one entry, the
\* iterator reads it to the end of the file, and its keys ascend.
CompletelyWritten(file) ==
    /\ file # << >>
    /\ EntryIter_end(file) = "eof"
    /\ StrictlyAscending(from_start(file))

\* C38: whenever the lock of the segment list is not held for writing, every
\* path of the list names a file that exists and is completely written.  A
\* flush that is about to push its path has written the whole memtable to
\* the file of that path, and the file is there.
C38_ListedFilesAreComplete ==
    /\ lock.writer = "none" =>
           \A i \in 1..Len(segments) :
               segments[i] \in DOMAIN dir /\ CompletelyWritten(dir[segments[i]])
    /\ fg.pc = "flush_push" =>
           /\ segment_filename(fg.next_segment_id) \in DOMAIN dir
           /\ dir[segment_filename(fg.next_segment_id)] = FlushedFile(memtable)

\* A flush has pushed the path of its file while the merged file of a
\* compaction step waits for the swap: the list names three files.
C38_Witness ==
    /\ lock.writer = "none"
    /\ cp.pc = "lock_write"
    /\ fg.pc = "flush_wal"
    /\ Len(segments) = 3
    /\ dir[segments[3]] = FlushedFile(memtable)

\* ------------------------------------------------------------- shutdown and the step
\* Engine::stop returns Ok.
StopReturnsOk == fg.pc = "stop_join" /\ fg'.pc = "stopped" /\ last'.ret = Ok(None)

C39_WitnessFlagDuringMerge ==
    /\ fg.pc = "stop_join"
    /\ compaction_kill_flag
    /\ cp.pc = "compact"
    /\ new_segment_path \notin DOMAIN dir

====
